---- MODULE Spec2Model ----
(***************************************************************************)
(* Battle-log event extraction engine of recorder/app.py.                   *)
(*                                                                         *)
(* A line is a sequence of tokens.  A token is either a word (a maximal    *)
(* run of characters the patterns treat as a unit, written W("lost")) or a *)
(* decimal literal (written N(62)).  Tokens are separated by one space,    *)
(* except that the words of GluedWords are written directly after the      *)
(* token before them and the words of OpenWords directly before the token  *)
(* after them; a line has no leading or trailing white space, so           *)
(* str.strip() leaves a token sequence unchanged.                          *)
(* The regular expressions of the source are transcribed element by        *)
(* element and matched by a backtracking matcher that tries alternatives   *)
(* in the order Python's re module does (lazy: shortest first, greedy:     *)
(* longest first, search: leftmost start first).                           *)
(***************************************************************************)
EXTENDS Integers, Sequences, FiniteSets, TLC

(***************************************************************************)
(* Tokens and Python values                                                *)
(***************************************************************************)

\* a word token
W(s) == [s |-> s, n |-> 0]

\* a decimal literal token with value n
N(n) == [s |-> "#", n |-> n]

IsNum(t) == t.s = "#"

\* a decimal literal of more digits than int() converts (4300 by default since Python
\* 3.11): int() of it raises ValueError; its value plays no part
LongLiteral == [s |-> "#", n |-> -2]

\* int(group) raises ValueError for the captured decimal literal
IntRaises(group) == group[1] = LongLiteral

\* the exception that leaves parse_log_stream, in place of its locals or its result
Raised == [exception |-> "ValueError"]

\* Python None where a str is expected, and where a number is expected
None == <<W("<None>")>>

NoneNum == -1

\* the empty str
EmptyStr == <<>>

\* truth value of an optional str: None and "" are falsy
Truthy(v) == v # None /\ v # EmptyStr

\* str.casefold() / re.IGNORECASE on the words of the inputs that hold an upper-case letter
Fold(s) ==
  CASE s = "Turn" -> "turn"
    [] s = "Lost" -> "lost"
    [] s = "Used" -> "used"
    [] s = "From" -> "from"
    [] s = "Format:" -> "format:"
    [] s = "Battle" -> "battle"
    [] s = "The" -> "the"
    [] s = "Opposing" -> "opposing"
    [] s = "Cat" -> "cat"
    [] s = "Dog" -> "dog"
    [] s = "Giraffe" -> "giraffe"
    [] s = "Eddie" -> "eddie"
    [] s = "Persian" -> "persian"
    [] s = "Tackle" -> "tackle"
    [] s = "Berry" -> "berry"
    [] s = "Alice" -> "alice"
    [] s = "Bob" -> "bob"
    [] s = "OU" -> "ou"
    [] OTHER -> s

\* float(group) / int(group) of a captured decimal literal
float(group) == group[1].n

(***************************************************************************)
(* Regular expressions over tokens                                         *)
(***************************************************************************)

\* words written without a space before them
GluedWords == {"%", "!", ")", ",", ";", "'s", "/", "|"}

\* words written without a space after them
OpenWords == {"(", "|", "/"}

\* a space precedes the token at index i of value
SpaceBefore(value, i) ==
  i > 1 /\ i <= Len(value) /\ value[i].s \notin GluedWords /\ value[i - 1].s \notin OpenWords

\* a space follows the token at index i of value
SpaceAfter(value, i) == SpaceBefore(value, i + 1)

\* a literal word (or an alternation of literal words); sb: the pattern has a space
\* before it, sa: the pattern has a space after it
Lit(S) == [k |-> "lit", set |-> S, cap |-> "", sb |-> FALSE, sa |-> FALSE]

LitB(S) == [k |-> "lit", set |-> S, cap |-> "", sb |-> TRUE, sa |-> FALSE]

LitA(S) == [k |-> "lit", set |-> S, cap |-> "", sb |-> FALSE, sa |-> TRUE]

LitBA(S) == [k |-> "lit", set |-> S, cap |-> "", sb |-> TRUE, sa |-> TRUE]

\* (?P<cap>\d+(?:\.\d+)?)
Num(cap) == [k |-> "num", set |-> {}, cap |-> cap]

\* (?P<cap>.+?)
LazyPlus(cap) == [k |-> "lazy+", set |-> {}, cap |-> cap]

\* (?P<cap>.+)
GreedyPlus(cap) == [k |-> "greedy+", set |-> {}, cap |-> cap]

\* $
End == [k |-> "end", set |-> {}, cap |-> ""]

\* .*?
LazyStar == [k |-> "lazy*", set |-> {}, cap |-> ""]

\* (?P<cap>[A-Za-z0-9' -]+?)
ItemPlus(cap) == [k |-> "item+", set |-> {}, cap |-> cap]

\* words holding a character outside [A-Za-z0-9' -]
NonItemWords == {"%", "!", "|", "(", ")", "/", ",", ";", ":", "p1a:", "p2a:", "Format:"}

InClass(e, t) == e.k # "item+" \/ IsNum(t) \/ t.s \notin NonItemWords

CapNames == {"", "actor", "item", "target", "low", "high", "move", "turn",
             "hp", "max", "pct", "format", "player1", "player2", "winner"}

NoCaps == [c \in CapNames |-> <<>>]

NoMatch == [ok |-> FALSE, caps |-> NoCaps]

RECURSIVE MatchFrom(_, _, _, _, _)
RECURSIVE MatchLazy(_, _, _, _, _, _)
RECURSIVE MatchGreedy(_, _, _, _, _, _)

\* match elements pi.. of pat against line at position pos; the groups are filled in
\* once the rest of the pattern has matched (every group occurs once in a pattern)
MatchFrom(pat, pi, line, pos, caps) ==
  IF pi > Len(pat) THEN [ok |-> TRUE, caps |-> caps]
  ELSE LET e == pat[pi] IN
    CASE e.k = "lit" ->
           IF pos <= Len(line) /\ Fold(line[pos].s) \in e.set
              /\ (e.sb => SpaceBefore(line, pos)) /\ (e.sa => SpaceAfter(line, pos))
           THEN MatchFrom(pat, pi + 1, line, pos + 1, caps)
           ELSE NoMatch
      [] e.k = "num" ->
           IF pos <= Len(line) /\ IsNum(line[pos])
           THEN LET r == MatchFrom(pat, pi + 1, line, pos + 1, caps)
                IN IF r.ok THEN [r EXCEPT !.caps[e.cap] = <<line[pos]>>] ELSE NoMatch
           ELSE NoMatch
      [] e.k = "end" ->
           IF pos = Len(line) + 1
           THEN MatchFrom(pat, pi + 1, line, pos, caps)
           ELSE NoMatch
      [] e.k = "lazy*" -> MatchLazy(pat, pi, line, pos, caps, 0)
      [] e.k = "greedy+" -> MatchGreedy(pat, pi, line, pos, caps, Len(line) - pos + 1)
      [] OTHER -> MatchLazy(pat, pi, line, pos, caps, 1)

\* a lazy repetition: spans of n, n+1, ... tokens, the shortest that lets the rest match
MatchLazy(pat, pi, line, pos, caps, n) ==
  IF pos + n - 1 > Len(line) THEN NoMatch
  ELSE IF n > 0 /\ ~InClass(pat[pi], line[pos + n - 1]) THEN NoMatch
  ELSE LET r == MatchFrom(pat, pi + 1, line, pos + n, caps)
       IN IF r.ok THEN [r EXCEPT !.caps[pat[pi].cap] = SubSeq(line, pos, pos + n - 1)]
          ELSE MatchLazy(pat, pi, line, pos, caps, n + 1)

\* a greedy repetition: spans of n, n-1, ..., 1 tokens, the longest that lets the rest match
MatchGreedy(pat, pi, line, pos, caps, n) ==
  IF n < 1 THEN NoMatch
  ELSE LET r == MatchFrom(pat, pi + 1, line, pos + n, caps)
       IN IF r.ok THEN [r EXCEPT !.caps[pat[pi].cap] = SubSeq(line, pos, pos + n - 1)]
          ELSE MatchGreedy(pat, pi, line, pos, caps, n - 1)

RECURSIVE SearchFrom(_, _, _)

\* the leftmost match.  A pattern that begins with .+? and does not match at a start
\* matches at no later start: a later match, its first group extended to the left,
\* is a match at the earlier start.
SearchFrom(pat, line, start) ==
  IF start > Len(line) THEN NoMatch
  ELSE LET r == MatchFrom(pat, 1, line, start, NoCaps)
       IN IF r.ok THEN r
          ELSE IF pat[1].k = "lazy+" THEN NoMatch
          ELSE SearchFrom(pat, line, start + 1)

\* pattern.search(line)
Search(pat, line) == SearchFrom(pat, line, 1)

\* pattern.search(line) / pattern.match(line) for a pattern that starts with ^
SearchAnchored(pat, line) == MatchFrom(pat, 1, line, 1, NoCaps)

(***************************************************************************)
(* The patterns of the source                                              *)
(***************************************************************************)

ITEM_PATTERNS == <<
  <<LazyPlus("actor"), LitA({"'s"}), ItemPlus("item"),
    Lit({"restored", "activated", "went", "made", "triggered"})>>,
  <<LazyPlus("actor"), LitB({"had"}), LitA({"its"}), ItemPlus("item"),
    Lit({"restored", "activated", "used", "triggered"})>>,
  <<LazyPlus("actor"), LitB({"used"}), LitA({"its"}), ItemPlus("item")>> >>

DAMAGE_RANGE_FROM_PATTERN ==
  <<LazyPlus("target"), LitBA({"lost"}), Num("low"), Lit({"%"}), Lit({"-"}), Num("high"),
    Lit({"%"}), LazyStar, LitA({"from"}), LazyPlus("actor"), LitA({"'s"}), GreedyPlus("move")>>

DAMAGE_FROM_PATTERN ==
  <<LazyPlus("target"), LitBA({"lost"}), Num("low"), Lit({"%"}),
    LazyStar, LitA({"from"}), LazyPlus("actor"), LitA({"'s"}), GreedyPlus("move")>>

\* the optional trailing group (?:\s*\(.*?\))? captures nothing and cannot make the match fail
DAMAGE_PATTERN == <<LazyPlus("target"), LitBA({"lost"}), Num("low"), Lit({"%"})>>

DAMAGE_RANGE_PATTERN ==
  <<LazyPlus("target"), LitBA({"lost"}), Num("low"), Lit({"%"}), Lit({"-"}), Num("high"), Lit({"%"})>>

TURN_PATTERN == <<LitA({"turn"}), Num("turn")>>

MOVE_USED_PATTERN == <<LazyPlus("actor"), LitBA({"used"}), LazyPlus("move"), Lit({"!"})>>

\* not IGNORECASE, but it holds no letters
REPLAY_HP_PATTERN == <<Num("hp"), Lit({"/"}), Num("max")>>

REPLAY_PERCENT_PATTERN == <<Num("pct"), Lit({"%"})>>

\* ^Format:\s*(?P<format>.+)$
FORMAT_PATTERN == <<Lit({"format:"}), GreedyPlus("format"), End>>

START_PATTERN ==
  <<LitA({"battle"}), LitA({"started"}), LitA({"between"}), LazyPlus("player1"),
    LitBA({"and"}), LazyPlus("player2"), Lit({"!"}), End>>

WIN_PATTERN ==
  <<LazyPlus("winner"), LitBA({"won"}), LitA({"the"}), Lit({"battle"}), Lit({"!"}), End>>

(***************************************************************************)
(* Helpers of the protocol parser                                          *)
(***************************************************************************)

\* words that end in a colon; in a line they are followed by a space
ColonWords == {":", "p1a:", "p2a:", "Format:"}

RECURSIVE FirstColon(_, _)

\* index of the first ": " in value, 0 if there is none
FirstColon(value, i) ==
  IF i > Len(value) THEN 0
  ELSE IF value[i].s \in ColonWords /\ SpaceAfter(value, i) THEN i
  ELSE FirstColon(value, i + 1)

_strip_replay_prefix(value) ==
  LET i == FirstColon(value, 1)
  IN IF i > 0 THEN SubSeq(value, i + 1, Len(value)) ELSE value

RECURSIVE lstrip(_, _)

lstrip(value, w) ==
  IF value # <<>> /\ Head(value).s = w THEN lstrip(Tail(value), w) ELSE value

RECURSIVE rstrip(_, _)

rstrip(value, w) ==
  IF value # <<>> /\ value[Len(value)].s = w
  THEN rstrip(SubSeq(value, 1, Len(value) - 1), w) ELSE value

\* value.strip(): white space, one token " " per run, is removed at both ends
strip(value) == rstrip(lstrip(value, " "), " ")

RECURSIVE replace(_, _, _)

\* value.replace(phrase + " ", ""), from index i on
replace(value, phrase, i) ==
  IF i > Len(value) THEN <<>>
  ELSE IF i + Len(phrase) - 1 <= Len(value)
          /\ \A j \in 1..Len(phrase) : value[i + j - 1].s = phrase[j]
          /\ SpaceAfter(value, i + Len(phrase) - 1)
       THEN replace(value, phrase, i + Len(phrase))
       ELSE <<value[i]>> \o replace(value, phrase, i + 1)

clean_damage_target(value) ==
  LET c1 == lstrip(strip(value), "(")
      c2 == replace(replace(c1, <<"The", "opposing">>, 1), <<"the", "opposing">>, 1)
      c3 == replace(replace(c2, <<"The">>, 1), <<"the">>, 1)
  IN strip(rstrip(c3, ")"))

\* HpPercent that returns the quotient hp / max_hp as it is
HpPercent_Fraction(percent_match, ratio_match) ==
  IF percent_match.ok THEN float(percent_match.caps["pct"])
  ELSE IF ratio_match.ok /\ float(ratio_match.caps["max"]) > 0
       THEN float(ratio_match.caps["hp"]) \div float(ratio_match.caps["max"])
       ELSE NoneNum

\* the percentage _parse_replay_hp returns for the matches of its two patterns:
\* (hp / max_hp) * 100.0; the inputs of the model keep the quotient integral
HpPercent(percent_match, ratio_match) ==
  IF percent_match.ok THEN float(percent_match.caps["pct"])
  ELSE IF ratio_match.ok /\ float(ratio_match.caps["max"]) > 0
       THEN (float(ratio_match.caps["hp"]) * 100) \div float(ratio_match.caps["max"])
       ELSE NoneNum

_parse_replay_hp(hp_text) ==
  IF hp_text = <<>> THEN NoneNum
  ELSE HpPercent(Search(REPLAY_PERCENT_PATTERN, hp_text), Search(REPLAY_HP_PATTERN, hp_text))

RECURSIVE SplitFrom(_, _, _)

\* the fields of line from index i on, cur being the field under construction
SplitFrom(line, i, cur) ==
  IF i > Len(line) THEN <<cur>>
  ELSE IF line[i].s = "|" THEN <<cur>> \o SplitFrom(line, i + 1, <<>>)
  ELSE SplitFrom(line, i + 1, Append(cur, line[i]))

\* line.split("|"); Part(parts, k) is the source's parts[k]
split(line) == SplitFrom(line, 1, <<>>)

Part(parts, k) == parts[k + 1]

\* int(text): a single integer literal, otherwise ValueError
IsInt(text) == Len(text) = 1 /\ IsNum(text[1]) /\ ~IntRaises(text)

\* the dict parse_replay_line returns; an absent key reads as None
EmptyResult ==
  [turn |-> NoneNum, actor |-> None, move |-> None, target |-> None, event |-> "",
   target_key |-> None, current_hp_pct |-> NoneNum, value_low |-> NoneNum,
   value_high |-> NoneNum]

\* the branch for switch, drag and replace once pct = _parse_replay_hp(parts[4]) is known
HpUpdate(result, target_key, pct) ==
  IF pct # NoneNum
  THEN [result EXCEPT !.event = "hp_update",
                      !.target_key = target_key,
                      !.current_hp_pct = pct]
  ELSE result

\* the branch for -damage once pct = _parse_replay_hp(parts[3]) is known
Damage(result, target_raw, pct) ==
  IF pct # NoneNum
  THEN [result EXCEPT !.event = "damage",
                      !.target = clean_damage_target(_strip_replay_prefix(target_raw)),
                      !.target_key = target_raw,
                      !.current_hp_pct = pct,
                      !.value_low = pct,
                      !.value_high = pct]
  ELSE result

\* parse_replay_line after parts = line.split("|")
ParseParts(parts) ==
  LET result == EmptyResult
      tag == IF Len(parts) < 2 THEN <<>> ELSE Part(parts, 1)
  IN IF Len(parts) < 2 THEN result
     ELSE IF tag = <<W("turn")>> /\ Len(parts) > 2 THEN
       IF IsInt(Part(parts, 2))
       THEN [result EXCEPT !.turn = float(Part(parts, 2))]
       ELSE result
     ELSE IF tag = <<W("move")>> /\ Len(parts) > 3 THEN
       [result EXCEPT !.actor = _strip_replay_prefix(Part(parts, 2)),
                      !.move = Part(parts, 3),
                      !.target = IF Len(parts) > 4
                                 THEN _strip_replay_prefix(Part(parts, 4)) ELSE None]
     ELSE IF tag \in {<<W("switch")>>, <<W("drag")>>, <<W("replace")>>} /\ Len(parts) > 4 THEN
       HpUpdate(result, Part(parts, 2), _parse_replay_hp(Part(parts, 4)))
     ELSE IF tag = <<W("-damage")>> /\ Len(parts) > 3 THEN
       Damage(result, Part(parts, 2), _parse_replay_hp(Part(parts, 3)))
     ELSE result

parse_replay_line(line) == ParseParts(split(line))

(***************************************************************************)
(* parse_log_stream                                                        *)
(***************************************************************************)

\* the empty dict
EmptyDict == [k \in {} |-> NoneNum]

\* state.get(key), None when the key is absent
StateGet(state, key, default) == IF key \in DOMAIN state THEN state[key] ELSE default

\* hp_pct_map.get(target_key)
MapGet(map, key) == IF key \in DOMAIN map THEN map[key] ELSE NoneNum

\* hp_pct_map[target_key] = value
MapPut(map, key, value) ==
  [k \in DOMAIN map \cup {key} |-> IF k = key THEN value ELSE map[k]]

max(a, b) == IF a >= b THEN a ELSE b

Event(event_type, actor, target, move, turn, value_low, value_high, raw_line) ==
  [event_type |-> event_type, actor |-> actor, target |-> target, move |-> move,
   turn |-> turn, value_low |-> value_low, value_high |-> value_high,
   raw_line |-> raw_line]

LogLine(turn, raw_line) == [turn |-> turn, raw_line |-> raw_line]

\* the rest of the iteration once parsed = parse_replay_line(line) is known
ProtocolRecord(acc, line, parsed) ==
  LET current_turn == IF parsed.turn # NoneNum THEN parsed.turn ELSE acc.current_turn
      last_actor == IF Truthy(parsed.actor) THEN parsed.actor ELSE acc.last_actor
      last_move == IF Truthy(parsed.move) THEN parsed.move ELSE acc.last_move
      target_key == parsed.target_key
      current_hp_pct == parsed.current_hp_pct
      tracked == Truthy(target_key) /\ current_hp_pct # NoneNum
      prev_hp_pct == MapGet(acc.hp_pct_map, target_key)
      damage_pct == max(prev_hp_pct - current_hp_pct, 0)
      value_low == IF ~tracked THEN parsed.value_low
                   ELSE IF prev_hp_pct # NoneNum THEN damage_pct ELSE NoneNum
      value_high == IF ~tracked THEN parsed.value_high
                    ELSE IF prev_hp_pct # NoneNum THEN damage_pct ELSE NoneNum
      hp_pct_map == IF parsed.event \in {"hp_update", "damage"} /\ tracked
                    THEN MapPut(acc.hp_pct_map, target_key, current_hp_pct)
                    ELSE acc.hp_pct_map
      events == IF parsed.event = "damage"
                THEN Append(acc.events,
                            Event("damage", last_actor, parsed.target, last_move,
                                  current_turn, value_low, value_high, line))
                ELSE acc.events
  IN [events |-> events,
      log_lines |-> Append(acc.log_lines, LogLine(current_turn, line)),
      current_turn |-> current_turn, last_actor |-> last_actor,
      last_move |-> last_move, hp_pct_map |-> hp_pct_map]

\* ProtocolStep that passes over a line of which parse_replay_line makes nothing
ProtocolStep_SkipUnknown(acc, line) ==
  IF parse_replay_line(line) = EmptyResult THEN acc
  ELSE ProtocolRecord(acc, line, parse_replay_line(line))

\* one iteration of the loop for a line that starts with "|"
ProtocolStep(acc, line) == ProtocolRecord(acc, line, parse_replay_line(line))

RECURSIVE FirstItemMatch(_, _)

\* for pattern in ITEM_PATTERNS: ... break
FirstItemMatch(line, i) ==
  IF i > Len(ITEM_PATTERNS) THEN NoMatch
  ELSE IF Search(ITEM_PATTERNS[i], line).ok THEN Search(ITEM_PATTERNS[i], line)
  ELSE FirstItemMatch(line, i + 1)

\* the event of each branch of the damage cascade
AttributedRange(range_from_match, current_turn, line) ==
  Event("damage", range_from_match.caps["actor"], range_from_match.caps["target"],
        range_from_match.caps["move"], current_turn,
        float(range_from_match.caps["low"]), float(range_from_match.caps["high"]), line)

UnattributedRange(range_match, current_turn, last_actor, last_move, line) ==
  Event("damage", last_actor, clean_damage_target(range_match.caps["target"]),
        last_move, current_turn,
        float(range_match.caps["low"]), float(range_match.caps["high"]), line)

AttributedSingle(dmg_from_match, current_turn, line) ==
  Event("damage", dmg_from_match.caps["actor"], dmg_from_match.caps["target"],
        dmg_from_match.caps["move"], current_turn,
        float(dmg_from_match.caps["low"]), float(dmg_from_match.caps["low"]), line)

UnattributedSingle(dmg_match, current_turn, last_actor, last_move, line) ==
  Event("damage", last_actor, clean_damage_target(dmg_match.caps["target"]),
        last_move, current_turn,
        float(dmg_match.caps["low"]), float(dmg_match.caps["low"]), line)

\* DamageCascade with the unattributed range pattern tried before the attributed one
DamageCascade_RangeFirst(line, current_turn, last_actor, last_move) ==
  IF Search(DAMAGE_RANGE_PATTERN, line).ok THEN
    <<UnattributedRange(Search(DAMAGE_RANGE_PATTERN, line), current_turn,
                        last_actor, last_move, line)>>
  ELSE IF Search(DAMAGE_RANGE_FROM_PATTERN, line).ok THEN
    <<AttributedRange(Search(DAMAGE_RANGE_FROM_PATTERN, line), current_turn, line)>>
  ELSE <<>>

\* DamageCascade without the `continue` after a match: every matching pattern appends
DamageCascade_NoContinue(line, current_turn, last_actor, last_move) ==
  (IF Search(DAMAGE_RANGE_FROM_PATTERN, line).ok
   THEN <<AttributedRange(Search(DAMAGE_RANGE_FROM_PATTERN, line), current_turn, line)>>
   ELSE <<>>)
  \o (IF Search(DAMAGE_RANGE_PATTERN, line).ok
      THEN <<UnattributedRange(Search(DAMAGE_RANGE_PATTERN, line), current_turn,
                               last_actor, last_move, line)>>
      ELSE <<>>)
  \o (IF Search(DAMAGE_FROM_PATTERN, line).ok
      THEN <<AttributedSingle(Search(DAMAGE_FROM_PATTERN, line), current_turn, line)>>
      ELSE <<>>)
  \o (IF Search(DAMAGE_PATTERN, line).ok
      THEN <<UnattributedSingle(Search(DAMAGE_PATTERN, line), current_turn,
                                last_actor, last_move, line)>>
      ELSE <<>>)

\* the events the damage cascade appends for a line: the first pattern that matches,
\* in the order of the source, appends one event and the loop continues
DamageCascade(line, current_turn, last_actor, last_move) ==
  IF Search(DAMAGE_RANGE_FROM_PATTERN, line).ok THEN
    <<AttributedRange(Search(DAMAGE_RANGE_FROM_PATTERN, line), current_turn, line)>>
  ELSE IF Search(DAMAGE_RANGE_PATTERN, line).ok THEN
    <<UnattributedRange(Search(DAMAGE_RANGE_PATTERN, line), current_turn,
                        last_actor, last_move, line)>>
  ELSE IF Search(DAMAGE_FROM_PATTERN, line).ok THEN
    <<AttributedSingle(Search(DAMAGE_FROM_PATTERN, line), current_turn, line)>>
  ELSE IF Search(DAMAGE_PATTERN, line).ok THEN
    <<UnattributedSingle(Search(DAMAGE_PATTERN, line), current_turn,
                         last_actor, last_move, line)>>
  ELSE <<>>

\* NarrativeRecord with the damage cascade before the item patterns
NarrativeRecord_DamageFirst(acc, line, turn_match, used_match, item_match) ==
  LET current_turn == IF turn_match.ok THEN float(turn_match.caps["turn"])
                      ELSE acc.current_turn
      last_actor == IF used_match.ok THEN used_match.caps["actor"] ELSE acc.last_actor
      last_move == IF used_match.ok THEN used_match.caps["move"] ELSE acc.last_move
      item_events == IF item_match.ok
                     THEN <<Event("item", item_match.caps["actor"], None, None,
                                  current_turn, NoneNum, NoneNum, line)>>
                     ELSE <<>>
  IN [events |-> acc.events \o DamageCascade(line, current_turn, last_actor, last_move)
                   \o item_events,
      log_lines |-> Append(acc.log_lines, LogLine(current_turn, line)),
      current_turn |-> current_turn, last_actor |-> last_actor,
      last_move |-> last_move, hp_pct_map |-> acc.hp_pct_map]

\* the rest of the iteration once the turn, move and item patterns have been tried
NarrativeRecord(acc, line, turn_match, used_match, item_match) ==
  LET current_turn == IF turn_match.ok THEN float(turn_match.caps["turn"])
                      ELSE acc.current_turn
      last_actor == IF used_match.ok THEN used_match.caps["actor"] ELSE acc.last_actor
      last_move == IF used_match.ok THEN used_match.caps["move"] ELSE acc.last_move
      item_events == IF item_match.ok
                     THEN <<Event("item", item_match.caps["actor"], None, None,
                                  current_turn, NoneNum, NoneNum, line)>>
                     ELSE <<>>
  IN [events |-> acc.events \o item_events
                   \o DamageCascade(line, current_turn, last_actor, last_move),
      log_lines |-> Append(acc.log_lines, LogLine(current_turn, line)),
      current_turn |-> current_turn, last_actor |-> last_actor,
      last_move |-> last_move, hp_pct_map |-> acc.hp_pct_map]

\* one iteration of the loop for a line that does not start with "|", once
\* turn_match = TURN_PATTERN.search(line) is known: int(turn_match.group("turn")) is not
\* guarded
NarrativeTurn(acc, line, turn_match) ==
  IF turn_match.ok /\ IntRaises(turn_match.caps["turn"]) THEN Raised
  ELSE NarrativeRecord(acc, line, turn_match,
                       SearchAnchored(MOVE_USED_PATTERN, line), FirstItemMatch(line, 1))

\* one iteration of the loop for a line that does not start with "|"
NarrativeStep(acc, line) == NarrativeTurn(acc, line, SearchAnchored(TURN_PATTERN, line))

\* the body of `for raw in lines` once line = raw.strip() is known
ProcessStripped(acc, line) ==
  IF line = <<>> THEN acc
  ELSE IF line[1].s = "|" THEN ProtocolStep(acc, line)
  ELSE NarrativeStep(acc, line)

\* the body of `for raw in lines` without the call of strip
ProcessLine_Untrimmed(acc, raw) == ProcessStripped(acc, raw)

\* the body of `for raw in lines`
ProcessLine(acc, raw) == ProcessStripped(acc, strip(raw))

RECURSIVE ParseLoop(_, _, _)

\* an exception ends the loop
ParseLoop(acc, lines, i) ==
  IF i > Len(lines) \/ acc = Raised THEN acc
  ELSE ParseLoop(ProcessLine(acc, lines[i]), lines, i + 1)

\* NewState without the key hp_pct
NewState_NoHpPct(acc) ==
  [turn |-> acc.current_turn, last_actor |-> acc.last_actor, last_move |-> acc.last_move]

\* the dict parse_log_stream returns as its new state
NewState(acc) ==
  [turn |-> acc.current_turn, last_actor |-> acc.last_actor,
   last_move |-> acc.last_move, hp_pct |-> acc.hp_pct_map]

\* the locals of parse_log_stream before its loop
Locals(state) ==
  [events |-> <<>>, log_lines |-> <<>>,
   current_turn |-> StateGet(state, "turn", NoneNum),
   last_actor |-> StateGet(state, "last_actor", None),
   last_move |-> StateGet(state, "last_move", None),
   hp_pct_map |-> StateGet(state, "hp_pct", EmptyDict)]

\* return events, new_state, log_lines, unless an exception left the loop
Return(acc) ==
  IF acc = Raised THEN Raised
  ELSE [events |-> acc.events, state |-> NewState(acc), log_lines |-> acc.log_lines]

parse_log_stream(lines, state) == Return(ParseLoop(Locals(state), lines, 1))

\* parse_log_lines(lines): the batch parse from the empty state
parse_log_lines(lines) == parse_log_stream(lines, EmptyDict).events

\* hp_pct_map = state.get("hp_pct", {}): when state has the key, hp_pct_map is the very
\* dict object state["hp_pct"], and new_state["hp_pct"] is that object too
Aliased(state) == "hp_pct" \in DOMAIN state

\* the dict passed as state, read by the caller after the call: hp_pct_map[target_key] =
\* current_hp_pct has written into its hp_pct
ArgAfter(state, new_state) ==
  IF Aliased(state) THEN [state EXCEPT !.hp_pct = new_state.hp_pct] ELSE state

(***************************************************************************)
(* Match metadata                                                          *)
(***************************************************************************)

\* the characters of the words of the inputs
Chars(s) ==
    CASE s = "!" -> <<"!">>
      [] s = "%" -> <<"%">>
      [] s = "'s" -> <<"'", "s">>
      [] s = "(" -> <<"(">>
      [] s = ")" -> <<")">>
      [] s = "-" -> <<"-">>
      [] s = "-damage" -> <<"-", "d", "a", "m", "a", "g", "e">>
      [] s = "/" -> <<"/">>
      [] s = "|" -> <<"|">>
      [] s = "," -> <<",">>
      [] s = ";" -> <<";">>
      [] s = ":" -> <<":">>
      [] s = "Alice" -> <<"A", "l", "i", "c", "e">>
      [] s = "alice" -> <<"a", "l", "i", "c", "e">>
      [] s = "ALICE" -> <<"A", "L", "I", "C", "E">>
      [] s = "Bob" -> <<"B", "o", "b">>
      [] s = "OU" -> <<"O", "U">>
      [] s = "Berry" -> <<"B", "e", "r", "r", "y">>
      [] s = "Bite" -> <<"B", "i", "t", "e">>
      [] s = "Cat" -> <<"C", "a", "t">>
      [] s = "Dog" -> <<"D", "o", "g">>
      [] s = "Eddie" -> <<"E", "d", "d", "i", "e">>
      [] s = "Giraffe" -> <<"G", "i", "r", "a", "f", "f", "e">>
      [] s = "Foeman" -> <<"F", "o", "e", "m", "a", "n">>
      [] s = "raff" -> <<"r", "a", "f", "f">>
      [] s = "Opposing" -> <<"O", "p", "p", "o", "s", "i", "n", "g">>
      [] s = "opposing" -> <<"o", "p", "p", "o", "s", "i", "n", "g">>
      [] s = "Persian" -> <<"P", "e", "r", "s", "i", "a", "n">>
      [] s = "Tackle" -> <<"T", "a", "c", "k", "l", "e">>
      [] s = "The" -> <<"T", "h", "e">>
      [] s = "the" -> <<"t", "h", "e">>
      [] s = "Turn" -> <<"T", "u", "r", "n">>
      [] s = "Format:" -> <<"F", "o", "r", "m", "a", "t", ":">>
      [] s = "Battle" -> <<"B", "a", "t", "t", "l", "e">>
      [] s = "started" -> <<"s", "t", "a", "r", "t", "e", "d">>
      [] s = "between" -> <<"b", "e", "t", "w", "e", "e", "n">>
      [] s = "and" -> <<"a", "n", "d">>
      [] s = "won" -> <<"w", "o", "n">>
      [] s = "battle" -> <<"b", "a", "t", "t", "l", "e">>
      [] s = "bear" -> <<"b", "e", "a", "r">>
      [] s = "drag" -> <<"d", "r", "a", "g">>
      [] s = "fnt" -> <<"f", "n", "t">>
      [] s = "from" -> <<"f", "r", "o", "m">>
      [] s = "had" -> <<"h", "a", "d">>
      [] s = "health" -> <<"h", "e", "a", "l", "t", "h">>
      [] s = "its" -> <<"i", "t", "s">>
      [] s = "lost" -> <<"l", "o", "s", "t">>
      [] s = "move" -> <<"m", "o", "v", "e">>
      [] s = "of" -> <<"o", "f">>
      [] s = "p1" -> <<"p", "1">>
      [] s = "p2" -> <<"p", "2">>
      [] s = "p1a:" -> <<"p", "1", "a", ":">>
      [] s = "p2a:" -> <<"p", "2", "a", ":">>
      [] s = "player" -> <<"p", "l", "a", "y", "e", "r">>
      [] s = "replace" -> <<"r", "e", "p", "l", "a", "c", "e">>
      [] s = "restored" -> <<"r", "e", "s", "t", "o", "r", "e", "d">>
      [] s = "switch" -> <<"s", "w", "i", "t", "c", "h">>
      [] s = "tier" -> <<"t", "i", "e", "r">>
      [] s = "turn" -> <<"t", "u", "r", "n">>
      [] s = "used" -> <<"u", "s", "e", "d">>
      [] s = "win" -> <<"w", "i", "n">>
      [] s = "TornWithoutOgre" ->
           <<"T", "o", "r", "n", "W", "i", "t", "h", "o", "u", "t", "O", "g", "r", "e">>
      [] s = "Does" -> <<"D", "o", "e", "s">>
      [] s = "not" -> <<"n", "o", "t">>
      [] s = "care" -> <<"c", "a", "r", "e">>
      [] s = "healing" -> <<"h", "e", "a", "l", "i", "n", "g">>
      [] s = "moon" -> <<"m", "o", "o", "n">>
      [] s = "stupid" -> <<"s", "t", "u", "p", "i", "d">>
      [] s = "cat" -> <<"c", "a", "t">>

Digit == <<"0", "1", "2", "3", "4", "5", "6", "7", "8", "9">>

RECURSIVE Digits(_)

\* the decimal digits of n
Digits(n) == IF n < 10 THEN <<Digit[n + 1]>> ELSE Digits(n \div 10) \o <<Digit[(n % 10) + 1]>>

RECURSIVE TextFrom(_, _)

\* the characters of the tokens i.. of value, with the spaces between them
TextFrom(value, i) ==
  IF i > Len(value) THEN <<>>
  ELSE (IF SpaceBefore(value, i) THEN <<" ">> ELSE <<>>)
       \o (IF IsNum(value[i]) THEN Digits(value[i].n) ELSE Chars(value[i].s))
       \o TextFrom(value, i + 1)

\* a str as a sequence of characters
Text(value) == TextFrom(value, 1)

Upper == <<"A", "B", "C", "D", "E", "F", "G", "H", "I", "J", "K", "L", "M",
           "N", "O", "P", "Q", "R", "S", "T", "U", "V", "W", "X", "Y", "Z">>

Lower == <<"a", "b", "c", "d", "e", "f", "g", "h", "i", "j", "k", "l", "m",
           "n", "o", "p", "q", "r", "s", "t", "u", "v", "w", "x", "y", "z">>

\* str.casefold() of one ASCII character
casefold(c) ==
  IF \E i \in 1..26 : Upper[i] = c THEN Lower[CHOOSE i \in 1..26 : Upper[i] = c] ELSE c

\* the characters of the class [a-z0-9]
AlNum == {Lower[i] : i \in 1..26} \cup {Digit[i] : i \in 1..10}

RECURSIVE Sub(_, _, _)

\* re.sub(r"[^a-z0-9]+", " ", chars) from index i on; run: the character before index i
\* belongs to a run that has been replaced
Sub(chars, i, run) ==
  IF i > Len(chars) THEN <<>>
  ELSE IF casefold(chars[i]) \in AlNum THEN <<casefold(chars[i])>> \o Sub(chars, i + 1, FALSE)
  ELSE IF run THEN Sub(chars, i + 1, TRUE)
  ELSE <<" ">> \o Sub(chars, i + 1, TRUE)

\* chars.strip() of a sequence of characters whose only white space is single spaces
StripChars(chars) ==
  LET a == IF chars # <<>> /\ chars[1] = " " THEN 2 ELSE 1
      b == IF chars # <<>> /\ chars[Len(chars)] = " " THEN Len(chars) - 1 ELSE Len(chars)
  IN SubSeq(chars, a, b)

\* normalize_name(value) of a sequence of characters
NormalizeChars(chars) == StripChars(Sub(chars, 1, FALSE))

\* normalize_name(value): the normalized str as a sequence of characters
normalize_name(value) == NormalizeChars(Text(value))

EmptyMeta == [format |-> None, player1 |-> None, player2 |-> None, winner |-> None]

\* the body of `for raw in lines` of parse_match_meta once line = raw.strip() is known
MetaStripped(meta, line) ==
  IF line = <<>> THEN meta
  ELSE IF line[1].s = "|" THEN
    LET parts == split(line)
        m1 == IF Len(parts) > 2 /\ Part(parts, 1) = <<W("tier")>>
              THEN [meta EXCEPT !.format = strip(Part(parts, 2))] ELSE meta
        m2 == IF Len(parts) > 3 /\ Part(parts, 1) = <<W("player")>>
              THEN IF strip(Part(parts, 2)) = <<W("p1")>>
                   THEN [m1 EXCEPT !.player1 = strip(Part(parts, 3))]
                   ELSE IF strip(Part(parts, 2)) = <<W("p2")>>
                   THEN [m1 EXCEPT !.player2 = strip(Part(parts, 3))]
                   ELSE m1
              ELSE m1
    IN IF Len(parts) > 2 /\ Part(parts, 1) = <<W("win")>>
       THEN [m2 EXCEPT !.winner = strip(Part(parts, 2))] ELSE m2
  ELSE
    LET format_match == SearchAnchored(FORMAT_PATTERN, line)
        start_match == SearchAnchored(START_PATTERN, line)
        win_match == SearchAnchored(WIN_PATTERN, line)
    IN IF format_match.ok THEN [meta EXCEPT !.format = format_match.caps["format"]]
       ELSE IF start_match.ok
            THEN [meta EXCEPT !.player1 = start_match.caps["player1"],
                              !.player2 = start_match.caps["player2"]]
       ELSE IF win_match.ok THEN [meta EXCEPT !.winner = win_match.caps["winner"]]
       ELSE meta

\* the body of `for raw in lines` of parse_match_meta
MetaStep(meta, raw) == MetaStripped(meta, strip(raw))

RECURSIVE MetaLoop(_, _, _)

MetaLoop(meta, lines, i) ==
  IF i > Len(lines) THEN meta ELSE MetaLoop(MetaStep(meta, lines[i]), lines, i + 1)

parse_match_meta(lines) == MetaLoop(EmptyMeta, lines, 1)

\* compute_result comparing the names as they are written
compute_result_Exact(meta) ==
  IF ~Truthy(meta.winner) \/ ~Truthy(meta.player1) THEN None
  ELSE IF meta.winner = meta.player1 THEN <<W("Won")>>
  ELSE IF Truthy(meta.player2) /\ meta.winner = meta.player2 THEN <<W("Lost")>>
  ELSE None

\* "Won", "Lost" or None
compute_result(meta) ==
  IF ~Truthy(meta.winner) \/ ~Truthy(meta.player1) THEN None
  ELSE IF normalize_name(meta.winner) = normalize_name(meta.player1) THEN <<W("Won")>>
  ELSE IF Truthy(meta.player2) /\ normalize_name(meta.winner) = normalize_name(meta.player2)
       THEN <<W("Lost")>>
  ELSE None

(***************************************************************************)
(* Owner classification                                                    *)
(***************************************************************************)

\* Python None where a side slot or an owner label is expected
Unknown == "None"

\* needle in hay, for sequences of characters
Contains(needle, hay) ==
  \E i \in 0..(Len(hay) - Len(needle)) : SubSeq(hay, i + 1, i + Len(needle)) = needle

RECURSIVE DetectFrom(_, _)

\* for token in normalized.split(): the first token from index i on that starts with
\* "p1" or "p2"
DetectFrom(normalized, i) ==
  IF i >= Len(normalized) THEN Unknown
  ELSE IF (i = 1 \/ normalized[i - 1] = " ") /\ normalized[i] = "p"
          /\ normalized[i + 1] \in {"1", "2"}
       THEN IF normalized[i + 1] = "1" THEN "p1" ELSE "p2"
  ELSE DetectFrom(normalized, i + 1)

_detect_side_token(normalized) ==
  IF normalized = <<>> THEN Unknown ELSE DetectFrom(normalized, 1)

\* Nicknames with the opponent's item first
Nicknames_OpponentFirst(mine, opponent) ==
  << [side |-> "opponent", names |-> opponent], [side |-> "mine", names |-> mine] >>

\* {"mine": mine, "opponent": opponent}: the items of the dict in insertion order
Nicknames(mine, opponent) ==
  << [side |-> "mine", names |-> mine], [side |-> "opponent", names |-> opponent] >>

NoNicknames == Nicknames(<<>>, <<>>)

\* for name in names: some name is non-empty, normalizes to a non-empty str and that str
\* is in normalized
AnyNameIn(names, normalized) ==
  \E j \in 1..Len(names) :
    /\ Truthy(names[j])
    /\ normalize_name(names[j]) # <<>>
    /\ Contains(normalize_name(names[j]), normalized)

RECURSIVE NicknameSide(_, _, _)

\* for side, names in nicknames.items(), from item i on
NicknameSide(normalized, nicknames, i) ==
  IF i > Len(nicknames) THEN Unknown
  ELSE IF AnyNameIn(nicknames[i].names, normalized) THEN nicknames[i].side
  ELSE NicknameSide(normalized, nicknames, i + 1)

\* the slot rule: if my_side and _detect_side_token(normalized)
SlotRule(side_token, my_side) == my_side # Unknown /\ side_token # Unknown

\* ClassifyNormalized with the slot rule tried before the opposing/foe rule
ClassifyNormalized_SlotFirst(normalized, nicknames, my_side) ==
  IF SlotRule(_detect_side_token(normalized), my_side)
  THEN IF _detect_side_token(normalized) = my_side THEN "mine" ELSE "opponent"
  ELSE IF Contains(<<"o", "p", "p", "o", "s", "i", "n", "g">>, normalized)
          \/ Contains(<<"f", "o", "e">>, normalized)
       THEN "opponent"
  ELSE NicknameSide(normalized, nicknames, 1)

\* ClassifyNormalized with the nicknames tried before the slot rule
ClassifyNormalized_NicknamesFirst(normalized, nicknames, my_side) ==
  IF Contains(<<"o", "p", "p", "o", "s", "i", "n", "g">>, normalized)
     \/ Contains(<<"f", "o", "e">>, normalized)
  THEN "opponent"
  ELSE IF NicknameSide(normalized, nicknames, 1) # Unknown
       THEN NicknameSide(normalized, nicknames, 1)
  ELSE IF SlotRule(_detect_side_token(normalized), my_side)
       THEN IF _detect_side_token(normalized) = my_side THEN "mine" ELSE "opponent"
  ELSE Unknown

\* classify_owner once normalized = normalize_name(text) is known
ClassifyNormalized(normalized, nicknames, my_side) ==
  IF Contains(<<"o", "p", "p", "o", "s", "i", "n", "g">>, normalized)
     \/ Contains(<<"f", "o", "e">>, normalized)
  THEN "opponent"
  ELSE IF SlotRule(_detect_side_token(normalized), my_side)
       THEN IF _detect_side_token(normalized) = my_side THEN "mine" ELSE "opponent"
  ELSE NicknameSide(normalized, nicknames, 1)

classify_owner(text, nicknames, my_side) ==
  IF ~Truthy(text) THEN Unknown
  ELSE ClassifyNormalized(normalize_name(text), nicknames, my_side)

\* name_list = [name for name in my_names if name]
NameList(my_names) == SelectSeq(my_names, Truthy)

\* LIMIT 2000
RowLimit == 2000

\* SELECT raw_line ... ORDER BY id DESC LIMIT 2000: the newest rows first; rows is in
\* the order of id
Fetch(rows) ==
  [i \in 1..(IF Len(rows) < RowLimit THEN Len(rows) ELSE RowLimit) |-> rows[Len(rows) + 1 - i]]

\* for name in name_list: some name normalizes to a non-empty str that is in normalized
NameHit(name_list, normalized) ==
  \E j \in 1..Len(name_list) :
    /\ normalize_name(name_list[j]) # <<>>
    /\ Contains(normalize_name(name_list[j]), normalized)

\* the counter one row adds to: the slot of its first side token when a name of
\* name_list is in the row, else none (continue, or the loop over the names ends)
RowHit(normalized, name_list) ==
  IF _detect_side_token(normalized) # Unknown /\ NameHit(name_list, normalized)
  THEN _detect_side_token(normalized)
  ELSE Unknown

RECURSIVE CountHits_PerName(_, _, _, _)

\* CountHits without the break: a row adds one for each name of name_list that is in it
CountHits_PerName(rows, name_list, side, i) ==
  IF i > Len(rows) THEN 0
  ELSE (IF RowHit(normalize_name(rows[i]), name_list) = side
        THEN Cardinality({j \in 1..Len(name_list) :
                            NameHit(<<name_list[j]>>, normalize_name(rows[i]))})
        ELSE 0)
       + CountHits_PerName(rows, name_list, side, i + 1)

RECURSIVE CountHits(_, _, _, _)

\* p1_hits or p2_hits after the rows from index i on
CountHits(rows, name_list, side, i) ==
  IF i > Len(rows) THEN 0
  ELSE (IF RowHit(normalize_name(rows[i]), name_list) = side THEN 1 ELSE 0)
       + CountHits(rows, name_list, side, i + 1)

\* Decide without the test for equal counts
Decide_NoTie(p1_hits, p2_hits) ==
  IF p1_hits = 0 /\ p2_hits = 0 THEN Unknown
  ELSE IF p1_hits >= p2_hits THEN "p1" ELSE "p2"

\* the three returns after the loop
Decide(p1_hits, p2_hits) ==
  IF p1_hits = 0 /\ p2_hits = 0 THEN Unknown
  ELSE IF p1_hits = p2_hits THEN Unknown
  ELSE IF p1_hits > p2_hits THEN "p1" ELSE "p2"

\* <<p1_hits, p2_hits>> when the loop has ended, <<>> when it was never entered
Counters(rows, my_names) ==
  IF NameList(my_names) = <<>> THEN <<>>
  ELSE <<CountHits(Fetch(rows), NameList(my_names), "p1", 1),
         CountHits(Fetch(rows), NameList(my_names), "p2", 1)>>

\* infer_my_side(db, match_id, my_names), rows being the log_lines of the match
infer_my_side(rows, my_names) ==
  IF NameList(my_names) = <<>> THEN Unknown
  ELSE Decide(CountHits(Fetch(rows), NameList(my_names), "p1", 1),
              CountHits(Fetch(rows), NameList(my_names), "p2", 1))

MY_POKEMON_PRESET ==
  << <<W("Eddie"), W("bear")>>,
     <<W("TornWithoutOgre")>>,
     <<W("Does"), W("not"), W("care")>>,
     <<W("The"), W("healing"), W("moon")>>,
     <<W("The"), W("stupid"), W("cat")>>,
     <<W("Giraffe")>> >>

\* nicknames[side]
Named(dict, side) == dict[CHOOSE i \in 1..Len(dict) : dict[i].side = side].names

\* my_names = nicknames["mine"] or MY_POKEMON_PRESET
MyNames(dict) == IF Named(dict, "mine") # <<>> THEN Named(dict, "mine") ELSE MY_POKEMON_PRESET

\* my_side = match["my_side"] or infer_my_side(db, match_id, my_names)
MySide(stored, rows, names) == IF stored # Unknown THEN stored ELSE infer_my_side(rows, names)

\* effective_nicknames
Effective(dict) == Nicknames(MyNames(dict), Named(dict, "opponent"))

\* a or b, for two owner labels
OrElse(a, b) == IF a # Unknown THEN a ELSE b

\* owner = classify_owner(actor) or classify_owner(target) or classify_owner(raw_line,
\* my_side=my_side)
EventOwner(event, effective_nicknames, side) ==
  OrElse(classify_owner(event.actor, effective_nicknames, Unknown),
         OrElse(classify_owner(event.target, effective_nicknames, Unknown),
                classify_owner(event.raw_line, effective_nicknames, side)))

\* decorated_events: {**dict(event), "owner": owner} for each event
Decorated(events, effective_nicknames, side) ==
  [i \in 1..Len(events) |->
     ("owner" :> EventOwner(events[i], effective_nicknames, side)) @@ events[i]]

\* the decorated events of match_detail for the stored nicknames, the stored
\* matches.my_side, the raw lines in log_lines and the rows in events
match_detail(dict, stored, rows, events) ==
  Decorated(events, Effective(dict), MySide(stored, rows, MyNames(dict)))

(***************************************************************************)
(* Storage: the tables matches, match_state, events and log_lines          *)
(***************************************************************************)

\* a row of matches; its id is its index in db.matches
MatchRow(name, meta, result) ==
  [name |-> name, format |-> meta.format, player1 |-> meta.player1,
   player2 |-> meta.player2, winner |-> meta.winner, result |-> result]

\* the tables after init_db on a new database file
EmptyDb ==
  [matches |-> <<>>, match_state |-> [m \in {} |-> 0], events |-> <<>>, log_lines |-> <<>>]

NullStateRow == [last_turn |-> NoneNum, last_actor |-> None, last_move |-> None]

\* SELECT id FROM matches WHERE name = 'Live' ORDER BY id DESC LIMIT 1; 0 when there is no row
SelectLive(db) ==
  LET ids == {i \in 1..Len(db.matches) : db.matches[i].name = "Live"}
  IN IF ids = {} THEN 0 ELSE CHOOSE i \in ids : \A j \in ids : j <= i

\* the INSERTs of get_or_create_live_match
InsertLive(db) ==
  LET match_id == Len(db.matches) + 1
  IN [db EXCEPT !.matches = Append(@, MatchRow("Live", EmptyMeta, None)),
                !.match_state = (match_id :> NullStateRow) @@ @]

\* the tables after get_or_create_live_match; its result is SelectLive of them
get_or_create_live_match(db) == IF SelectLive(db) # 0 THEN db ELSE InsertLive(db)

\* the dict get_match_state returns: it has no key hp_pct
get_match_state(db, match_id) ==
  IF match_id \notin DOMAIN db.match_state
  THEN [turn |-> NoneNum, last_actor |-> None, last_move |-> None]
  ELSE [turn |-> db.match_state[match_id].last_turn,
        last_actor |-> db.match_state[match_id].last_actor,
        last_move |-> db.match_state[match_id].last_move]

\* the tables after get_match_state: a missing row is inserted
EnsureStateRow(db, match_id) ==
  IF match_id \notin DOMAIN db.match_state
  THEN [db EXCEPT !.match_state = (match_id :> NullStateRow) @@ @]
  ELSE db

\* INSERT OR REPLACE INTO match_state: only turn, last_actor and last_move are columns
update_match_state(db, match_id, state) ==
  [db EXCEPT !.match_state =
     (match_id :> [last_turn |-> StateGet(state, "turn", NoneNum),
                   last_actor |-> StateGet(state, "last_actor", None),
                   last_move |-> StateGet(state, "last_move", None)]) @@ @]

\* value or fallback
Or(value, fallback) == IF Truthy(value) THEN value ELSE fallback

\* the row apply_match_meta writes, from the row it read and the metadata of the line
UpdatedRow(existing, meta) ==
  LET updated == [format |-> Or(meta.format, existing.format),
                  player1 |-> Or(meta.player1, existing.player1),
                  player2 |-> Or(meta.player2, existing.player2),
                  winner |-> Or(meta.winner, existing.winner)]
      result == Or(compute_result(updated), existing.result)
  IN MatchRow(existing.name, updated, result)

\* UPDATE matches SET ... WHERE id = match_id
UpdateMatch(db, match_id, row) ==
  IF match_id \notin 1..Len(db.matches) THEN db
  ELSE [db EXCEPT !.matches[match_id] = row]

apply_match_meta(db, match_id, meta) ==
  IF match_id \notin 1..Len(db.matches) THEN db
  ELSE UpdateMatch(db, match_id, UpdatedRow(db.matches[match_id], meta))

\* the rows INSERTed INTO events for a match
EventRows(match_id, events) ==
  [i \in 1..Len(events) |-> [match_id |-> match_id, event |-> events[i]]]

\* the rows INSERTed INTO log_lines for a match
LogRows(match_id, log_lines) ==
  [i \in 1..Len(log_lines) |-> [match_id |-> match_id, turn |-> log_lines[i].turn,
                                raw_line |-> log_lines[i].raw_line]]

\* the two executemany calls and the commit of api_ingest_line
InsertRows(db, match_id, events, log_lines) ==
  [db EXCEPT !.events = @ \o EventRows(match_id, events),
             !.log_lines = @ \o LogRows(match_id, log_lines)]

\* api_ingest_line, run without interruption
\* api_ingest_line, run without interruption.
\* the writes of api_ingest_line once the line is parsed: the metadata, the rows, the state
StoreParsed(db, match_id, meta, parsed) ==
  update_match_state(
    InsertRows(apply_match_meta(db, match_id, meta), match_id,
               parsed.events, parsed.log_lines),
    match_id, parsed.state)

\* api_ingest_line from get_match_state on
IngestInto(db, match_id, line) ==
  StoreParsed(EnsureStateRow(db, match_id), match_id, parse_match_meta(<<line>>),
              parse_log_stream(<<line>>, get_match_state(db, match_id)))

\* api_ingest_line once get_or_create_live_match has run
IngestLive(db, line) == IngestInto(db, SelectLive(db), line)

\* api_ingest_line once line = str(data.get("line", "")).strip() is known
IngestStripped(db, line) ==
  IF line = <<>> THEN db ELSE IngestLive(get_or_create_live_match(db), line)

\* api_ingest_line on a request whose JSON body holds the str raw as "line"
IngestLine(db, raw) == IngestStripped(db, strip(raw))

(***************************************************************************)
(* Replays fetched from a URL                                              *)
(***************************************************************************)

\* a URL is a sequence of tokens: a name, then possibly ".json" or "/"
EndsWith(url, w) == url # <<>> /\ url[Len(url)].s = w

_normalize_replay_url(value) ==
  IF strip(value) = <<>> THEN <<>>
  ELSE IF EndsWith(strip(value), ".json") THEN strip(value)
  ELSE IF EndsWith(strip(value), "/")
       THEN Append(SubSeq(strip(value), 1, Len(strip(value)) - 1), W(".json"))
  ELSE Append(strip(value), W(".json"))

_strip_replay_json(value) ==
  IF EndsWith(strip(value), ".json")
  THEN SubSeq(strip(value), 1, Len(strip(value)) - 1)
  ELSE strip(value)

\* what a GET of a URL gives: no response (urlopen raises), a body that is not JSON
\* (json.loads raises), or a body that is JSON: an array, or an object whose "log" is the
\* text log ("" when the object has no "log")
Unreachable == [kind |-> "error"]

NotJson == [kind |-> "text"]

JsonArray == [kind |-> "array"]

JsonObject(log) == [kind |-> "object", log |-> log]

\* urllib.request.urlopen(normalized, timeout=8) against the servers of remote
urlopen(remote, normalized) ==
  IF normalized \in DOMAIN remote THEN remote[normalized] ELSE Unreachable

\* the try block ends in `except Exception`
FetchFails(body) == body.kind \in {"error", "text"}

RECURSIVE SplitLinesFrom(_, _, _)

\* the lines of log_text from index i on, cur being the line under construction
SplitLinesFrom(log_text, i, cur) ==
  IF i > Len(log_text) THEN (IF cur = <<>> THEN <<>> ELSE <<cur>>)
  ELSE IF log_text[i].s = "\n" THEN <<cur>> \o SplitLinesFrom(log_text, i + 1, <<>>)
  ELSE SplitLinesFrom(log_text, i + 1, Append(cur, log_text[i]))

\* log_text.splitlines()
splitlines(log_text) == SplitLinesFrom(log_text, 1, <<>>)

\* the row INSERTed INTO matches for a replay
ReplayRow(meta, result, replay_url) ==
  [name |-> "Replay", format |-> meta.format, player1 |-> meta.player1,
   player2 |-> meta.player2, winner |-> meta.winner, result |-> result,
   replay_url |-> replay_url]

\* what _ingest_replay_url leaves: the tables, the dict it returned, the exception it raised
Fetched(db, result) == [db |-> db, result |-> result, raised |-> ""]

Raises(db, exception) == [db |-> db, result |-> [ok |-> FALSE], raised |-> exception]

\* the INSERTs, update_match_state and the commit of _ingest_replay_url
StoreReplay(db, match_id, url, lines, parsed) ==
  IF parsed = Raised THEN Raises(db, Raised.exception)
  ELSE Fetched(
         update_match_state(
           InsertRows([db EXCEPT !.matches =
                         Append(@, ReplayRow(parse_match_meta(lines),
                                             compute_result(parse_match_meta(lines)), url))],
                      match_id, parsed.events, parsed.log_lines),
           match_id, parsed.state),
         [ok |-> TRUE, match_id |-> match_id, events |-> Len(parsed.events), url |-> url])

\* _ingest_replay_url once the body of the response is known
IngestBody(db, normalized, body) ==
  IF FetchFails(body)
  THEN Fetched(db, [ok |-> FALSE, error |-> "failed to fetch replay",
                    url |-> _strip_replay_json(normalized)])
  ELSE IF body.kind # "object" THEN Raises(db, "AttributeError")
  ELSE StoreReplay(db, Len(db.matches) + 1, _strip_replay_json(normalized),
                   splitlines(body.log),
                   parse_log_stream(splitlines(body.log), EmptyDict))

_ingest_replay_url(db, remote, replay_url) ==
  IF _normalize_replay_url(replay_url) = <<>>
  THEN Fetched(db, [ok |-> FALSE, error |-> "missing url"])
  ELSE IngestBody(db, _normalize_replay_url(replay_url),
                  urlopen(remote, _normalize_replay_url(replay_url)))

\* what api_ingest_replay_bulk leaves: the tables and the response, or the exception
BulkOutcome(db, response) == [db |-> db, response |-> response]

RECURSIVE BulkLoop(_, _, _, _, _, _)

RECURSIVE BulkStep(_, _, _, _, _, _, _)

\* `for url in url_list` from index i on, and the summary
BulkLoop(db, remote, url_list, i, results, ok_count) ==
  IF i > Len(url_list)
  THEN BulkOutcome(db, [status |-> "ok",
                        summary |-> [total |-> Len(results), ok |-> ok_count,
                                     failed |-> Len(results) - ok_count],
                        results |-> results])
  ELSE BulkStep(db, remote, url_list, i, results, ok_count,
                _ingest_replay_url(db, remote, url_list[i]))

\* one iteration, outcome being what _ingest_replay_url left; results holds
\* result | {"input": url} as the pair of its two parts
BulkStep(db, remote, url_list, i, results, ok_count, outcome) ==
  IF outcome.raised # ""
  THEN BulkOutcome(outcome.db, [status |-> "raised", exception |-> outcome.raised])
  ELSE BulkLoop(outcome.db, remote, url_list, i + 1,
                Append(results, [result |-> outcome.result, input |-> url_list[i]]),
                IF outcome.result.ok THEN ok_count + 1 ELSE ok_count)

\* api_ingest_replay_bulk on a request whose JSON body holds the list url_list as "urls"
api_ingest_replay_bulk(db, remote, url_list) ==
  IF url_list = <<>>
  THEN BulkOutcome(db, [status |-> "error", message |-> "no urls found"])
  ELSE BulkLoop(db, remote, url_list, 1, <<>>, 0)

(***************************************************************************)
(* replays.txt: the file of replay URLs and its handler                    *)
(***************************************************************************)

\* REPLAY_URL_PATTERN = https?://\S+ : a match starts at a scheme and ends before the next
\* white space
Scheme == W("https://")

RECURSIVE FindAllFrom(_, _, _, _)

\* REPLAY_URL_PATTERN.findall(line) from index i on; cur is the match under construction
\* when inside
FindAllFrom(line, i, cur, inside) ==
  IF i > Len(line) THEN (IF inside THEN <<cur>> ELSE <<>>)
  ELSE IF inside
       THEN (IF line[i] = W(" ")
             THEN <<cur>> \o FindAllFrom(line, i + 1, <<>>, FALSE)
             ELSE FindAllFrom(line, i + 1, Append(cur, line[i]), TRUE))
  ELSE IF line[i] = Scheme /\ i < Len(line) /\ line[i + 1] # W(" ")
       THEN FindAllFrom(line, i + 1, <<Scheme>>, TRUE)
  ELSE FindAllFrom(line, i + 1, <<>>, FALSE)

findall(line) == FindAllFrom(line, 1, <<>>, FALSE)

RECURSIVE Candidates(_, _)

\* the first loop of _extract_replay_urls, over text.splitlines() from index i on
Candidates(raws, i) ==
  IF i > Len(raws) THEN <<>>
  ELSE IF strip(raws[i]) = <<>> THEN Candidates(raws, i + 1)
  ELSE IF findall(strip(raws[i])) # <<>>
       THEN findall(strip(raws[i])) \o Candidates(raws, i + 1)
  ELSE <<strip(raws[i])>> \o Candidates(raws, i + 1)

RECURSIVE Unseen(_, _, _)

\* the second loop of _extract_replay_urls: normalized, not empty, each once
Unseen(candidates, i, urls) ==
  IF i > Len(candidates) THEN urls
  ELSE IF _normalize_replay_url(candidates[i]) = <<>>
          \/ \E k \in 1..Len(urls) : urls[k] = _normalize_replay_url(candidates[i])
       THEN Unseen(candidates, i + 1, urls)
  ELSE Unseen(candidates, i + 1, Append(urls, _normalize_replay_url(candidates[i])))

_extract_replay_urls(file_text) ==
  IF file_text = <<>> THEN <<>> ELSE Unseen(Candidates(splitlines(file_text), 1), 1, <<>>)

RECURSIVE Attempts(_, _, _, _)

\* the URLs that `for url in urls` passes to _ingest_replay_url from index i on: the loop
\* ends where _ingest_replay_url raises
Attempts(db, remote, urls, i) ==
  IF i > Len(urls) THEN <<>>
  ELSE IF _ingest_replay_url(db, remote, urls[i]).raised # "" THEN <<urls[i]>>
  ELSE <<urls[i]>> \o Attempts(_ingest_replay_url(db, remote, urls[i]).db, remote, urls, i + 1)

\* the response of api_ingest_replay_file after its loop: that of the loop, and "cleared"
FileResponse(response) ==
  IF response.status = "raised" THEN response
  ELSE [status |-> response.status, summary |-> response.summary,
        results |-> response.results, cleared |-> TRUE]

(***************************************************************************)
(* The watcher: a file is tailed and its lines are posted                  *)
(***************************************************************************)

\* a file is a sequence of characters; "\n" ends a line
WhiteSpace == {"\n", " "}

RECURSIVE LStripChars(_)

LStripChars(line) ==
  IF line # <<>> /\ Head(line) \in WhiteSpace THEN LStripChars(Tail(line)) ELSE line

RECURSIVE RStripChars(_)

RStripChars(line) ==
  IF line # <<>> /\ line[Len(line)] \in WhiteSpace
  THEN RStripChars(SubSeq(line, 1, Len(line) - 1)) ELSE line

\* line.strip() on characters
StripLine(line) == RStripChars(LStripChars(line))

RECURSIVE ReadLines(_, _, _)

\* `for line in handle` from index i on: a line ends with its "\n"; what is behind the
\* last "\n" is a line too, cur being the line under construction
ReadLines(content, i, cur) ==
  IF i > Len(content) THEN (IF cur = <<>> THEN <<>> ELSE <<cur>>)
  ELSE IF content[i] = "\n"
       THEN <<Append(cur, "\n")>> \o ReadLines(content, i + 1, <<>>)
  ELSE ReadLines(content, i + 1, Append(cur, content[i]))

\* the lines the loop passes to post_line
PostedLines(read) ==
  SelectSeq([k \in 1..Len(read) |-> StripLine(read[k])], LAMBDA line : line # <<>>)

\* the state file is missing, or holds a text
NoFile == [exists |-> FALSE, text |-> <<>>]

\* str(position)
str(position) == <<N(position)>>

\* _load_position: int(state_path.read_text().strip()), 0 when the file is missing or
\* int() raises
_load_position(state_file) ==
  IF state_file.exists /\ IsInt(strip(state_file.text)) THEN strip(state_file.text)[1].n
  ELSE 0

\* state_path.write_text(str(position))
_save_position(position) == [exists |-> TRUE, text |-> str(position)]

\* where the read starts: the size test of _read_new_lines
StartOf(size, position) == IF size < position THEN 0 ELSE position

\* _read_new_lines without the size test
_read_new_lines_NoRestart(file, position) ==
  IF ~file.exists THEN [position |-> position, lines |-> <<>>]
  ELSE IF ~file.readable THEN [position |-> position, lines |-> <<>>]
  ELSE [position |-> Len(file.content),
        lines |-> PostedLines(ReadLines(file.content, position + 1, <<>>))]

\* _read_new_lines: the position it returns and the lines it passes to post_line; a file
\* that is not readable makes path.open raise, after the size test
_read_new_lines(file, position) ==
  IF ~file.exists THEN [position |-> position, lines |-> <<>>]
  ELSE IF ~file.readable
       THEN [position |-> StartOf(Len(file.content), position), lines |-> <<>>]
  ELSE [position |-> Len(file.content),
        lines |-> PostedLines(ReadLines(file.content,
                                        StartOf(Len(file.content), position) + 1, <<>>))]

\* post_line: the lines that reach the endpoint; an error of urlopen is passed over
post_line(lines, reachable) == IF reachable THEN lines ELSE <<>>

(***************************************************************************)
(* Inputs                                                                  *)
(***************************************************************************)

\* longest transcript fed or posted
MaxLines == 3

\* most fragments concatenated into one narrative line
MaxFrags == 3

Bar == W("|")

KeyDog == <<W("p2a:"), W("Dog")>>

KeyCat == <<W("p1a:"), W("Cat")>>

Hp(a, b) == <<N(a), W("/"), N(b)>>

\* |tag|field|field...
Protocol(fields) ==
  LET RECURSIVE Join(_)
      Join(i) == IF i > Len(fields) THEN <<>> ELSE <<Bar>> \o fields[i] \o Join(i + 1)
  IN Join(1)

\* the lines a transcript of the model is made of
Lines ==
  { <<>>,
    Protocol(<< <<W("turn")>>, <<N(3)>> >>),
    Protocol(<< <<W("move")>>, KeyCat, <<W("Tackle")>>, KeyDog >>),
    Protocol(<< <<W("switch")>>, KeyDog, <<W("Persian")>>, Hp(100, 100) >>),
    Protocol(<< <<W("drag")>>, KeyCat, <<W("Cat")>>, Hp(30, 50) >>),
    Protocol(<< <<W("switch")>>, <<>>, <<W("Persian")>>, Hp(100, 100) >>),
    Protocol(<< <<W("-damage")>>, KeyDog, Hp(62, 100) >>),
    Protocol(<< <<W("-damage")>>, KeyDog, Hp(80, 100) >>),
    Protocol(<< <<W("-damage")>>, KeyCat, Hp(20, 50) >>),
    Protocol(<< <<W("-damage")>>, <<>>, Hp(62, 100) >>),
    Protocol(<< <<W("-damage")>>, KeyDog, <<N(0), W("fnt")>> >>),
    <<W("Cat"), W("used"), W("Tackle"), W("!")>>,
    <<W("Dog"), W("lost"), N(30), W("%")>> }

\* the clauses a narrative line of the model is made of
NarrFrags ==
  { <<W("Cat"), W("lost"), N(30), W("%")>>,
    <<W("Opposing"), W("Giraffe"), W("lost"), N(30), W("%")>>,
    <<W("("), W("The"), W("opposing"), W("Dog"), W(")"), W("lost"), N(30), W("%"),
      W("-"), N(20), W("%")>>,
    <<W("-"), N(40), W("%")>>,
    <<W("from"), W("Eddie"), W("'s"), W("Tackle")>>,
    <<W("of"), W("its"), W("health")>>,
    <<W("Cat"), W("'s"), W("Berry"), W("restored")>>,
    <<W("Cat"), W("used"), W("its"), W("Berry")>>,
    <<W("Cat"), W("used"), W("Tackle"), W("!")>>,
    <<W("Dog"), W("had"), W("its"), W("Berry"), W("used")>> }

RECURSIVE Concats(_)

\* the concatenations of at most n clauses
Concats(n) ==
  IF n = 0 THEN {<<>>}
  ELSE LET S == Concats(n - 1) IN S \cup {s \o f : s \in S, f \in NarrFrags}

NarrLines == Concats(MaxFrags) \ {<<>>}

\* a ParseState left by earlier calls: Turn 2, Dog used Bite!, a switch of p2a: Dog at 100%
LaterState ==
  [turn |-> 2, last_actor |-> <<W("Dog")>>, last_move |-> <<W("Bite")>>,
   hp_pct |-> (KeyDog :> 100)]

PriorStates == {EmptyDict, LaterState}

\* the lines two concurrent requests carry
ConcLines ==
  { <<>>,
    Protocol(<< <<W("turn")>>, <<N(3)>> >>),
    Protocol(<< <<W("move")>>, KeyCat, <<W("Tackle")>>, KeyDog >>),
    Protocol(<< <<W("player")>>, <<W("p1")>>, <<W("Alice")>> >>),
    <<W("Dog"), W("lost"), N(30), W("%")>> }

Requests == {1, 2}

\* the texts given to classify_owner: an actor, a target or a raw line of an event
ClassifyTexts ==
  { None,
    <<>>,
    <<W("Opposing"), W("Giraffe")>>,
    <<W("The"), W("opposing"), W("Dog")>>,
    <<W("Foeman")>>,
    <<W("p1a:"), W("opposing"), W("Cat")>>,
    <<W("p1a:"), W("Cat")>>,
    <<W("p2a:"), W("Dog")>>,
    Protocol(<< <<W("move")>>, KeyCat, <<W("Tackle")>>, KeyDog >>),
    Protocol(<< <<W("-damage")>>, KeyDog, Hp(62, 100) >>),
    <<W("Giraffe")>>,
    <<W("Dog")>>,
    <<W("Cat"), W("lost"), N(30), W("%")>> }

\* the nicknames of my side: none, one, two, and a list with an empty name, a name
\* without letters or digits and a name that is part of a word
MineLists ==
  { <<>>,
    << <<W("Giraffe")>> >>,
    << <<W("Dog")>>, <<W("Cat")>> >>,
    << <<>>, <<W("!")>>, <<W("raff")>> >> }

OpponentLists == { <<>>, << <<W("Dog")>> >>, << <<W("Giraffe")>> >> }

NicknameSets == {Nicknames(mine, opponent) : mine \in MineLists, opponent \in OpponentLists}

\* the raw lines in log_lines: protocol lines with the slot p1 or p2 first and a line
\* without a slot
InferLines ==
  { Protocol(<< <<W("move")>>, KeyCat, <<W("Tackle")>>, KeyDog >>),
    Protocol(<< <<W("move")>>, KeyDog, <<W("Bite")>>, KeyCat >>),
    Protocol(<< <<W("-damage")>>, KeyDog, Hp(62, 100) >>),
    <<W("Dog"), W("lost"), N(30), W("%")>> }

\* the most rows of log_lines
MaxRows == 3

RowLists == UNION {[1..n -> InferLines] : n \in 0..MaxRows}

\* the names given to infer_my_side
NameLists == MineLists \cup { << <<W("Cat")>> >>, << <<>>, <<W("Dog")>> >> }

\* the lines of a match whose page is viewed
DetailLines ==
  { <<W("Giraffe"), W("lost"), N(30), W("%")>>,
    <<W("Opposing"), W("Giraffe"), W("lost"), N(30), W("%")>>,
    <<W("Cat"), W("used"), W("Tackle"), W("!")>>,
    Protocol(<< <<W("move")>>, KeyCat, <<W("Tackle")>>, KeyDog >>),
    Protocol(<< <<W("-damage")>>, KeyDog, Hp(62, 100) >>) }

\* the most lines of such a match
MaxDetail == 2

DetailLists == UNION {[1..n -> DetailLines] : n \in 0..MaxDetail}

\* a player's or a winner's name in the metadata: missing, empty, one name in three
\* spellings and with punctuation, another name, and a name without letters or digits
MetaNames ==
  { None, <<>>, <<W("Alice")>>, <<W("alice")>>, <<W("ALICE")>>, <<W("Alice"), W("!")>>,
    <<W("Bob")>>, <<W("!")>> }

Metas ==
  { [format |-> None, player1 |-> a, player2 |-> b, winner |-> w] :
      a \in MetaNames, b \in MetaNames, w \in MetaNames }

\* a run of white space at an end of a raw line
Space == <<W(" ")>>

\* raw lines as a file or a request holds them: empty, white space only, and lines
\* with white space before or after them
RawLines ==
  { <<>>,
    Space,
    Space \o <<W("Turn"), N(4)>>,
    Protocol(<< <<W("turn")>>, <<N(3)>> >>) \o Space,
    Space \o <<W("Cat"), W("used"), W("Tackle"), W("!")>>,
    Protocol(<< <<W("-damage")>>, KeyDog, Hp(62, 100) >>),
    Space \o <<W("Dog"), W("lost"), N(30), W("%")>> \o Space }

\* the most lines of one call of parse_log_stream
MaxBatch == 2

RawBatches == UNION {[1..n -> RawLines] : n \in 1..MaxBatch}

\* move lines of both dialects, one of them with an empty actor field, and -damage lines
MoveLines ==
  { Protocol(<< <<W("move")>>, KeyCat, <<W("Tackle")>>, KeyDog >>),
    Protocol(<< <<W("move")>>, <<>>, <<W("Tackle")>>, KeyCat >>),
    <<W("Dog"), W("used"), W("Bite"), W("!")>>,
    Protocol(<< <<W("-damage")>>, KeyDog, Hp(62, 100) >>),
    Protocol(<< <<W("-damage")>>, KeyCat, Hp(20, 50) >>) }

MoveBatches == UNION {[1..n -> MoveLines] : n \in 1..MaxLines}

\* records with well-formed and with malformed numeric fields, and a narrative turn
\* marker whose number int() refuses
NumberLines ==
  { Protocol(<< <<W("turn")>>, <<N(3)>> >>),
    Protocol(<< <<W("turn")>>, <<W("Bite")>> >>),
    Protocol(<< <<W("switch")>>, KeyDog, <<W("Persian")>>, Hp(80, 100) >>),
    Protocol(<< <<W("switch")>>, KeyDog, <<W("Persian")>>, <<W("fnt")>> >>),
    Protocol(<< <<W("-damage")>>, KeyDog, Hp(62, 100) >>),
    Protocol(<< <<W("-damage")>>, KeyDog, <<N(0), W("fnt")>> >>),
    Protocol(<< <<W("-damage")>>, KeyDog, Hp(62, 0) >>),
    <<W("Turn"), LongLiteral>> }

NumberBatches == UNION {[1..n -> NumberLines] : n \in 1..MaxLines}

\* records with a tag the parser knows and records with another tag: a tag with HP text,
\* tags without, the empty tag and a tag in another case
TagLines ==
  { Protocol(<< <<W("turn")>>, <<N(3)>> >>),
    Protocol(<< <<W("move")>>, KeyCat, <<W("Tackle")>>, KeyDog >>),
    Protocol(<< <<W("switch")>>, KeyDog, <<W("Persian")>>, Hp(100, 100) >>),
    Protocol(<< <<W("-damage")>>, KeyDog, Hp(62, 100) >>),
    Protocol(<< <<W("-heal")>>, KeyDog, Hp(80, 100) >>),
    Protocol(<< <<W("faint")>>, KeyDog >>),
    Protocol(<< <<W("player")>>, <<W("p1")>>, <<W("Alice")>> >>),
    Protocol(<< <<W("Turn")>>, <<N(5)>> >>),
    <<Bar>> }

\* switch, drag, replace and -damage records with HP texts inside and outside 0..100
HpLines ==
  { Protocol(<< <<W("switch")>>, KeyDog, <<W("Persian")>>, Hp(100, 100) >>),
    Protocol(<< <<W("switch")>>, KeyDog, <<W("Persian")>>, Hp(150, 100) >>),
    Protocol(<< <<W("drag")>>, KeyCat, <<W("Meowth")>>, Hp(80, 100) >>),
    Protocol(<< <<W("replace")>>, KeyCat, <<W("Meowth")>>, <<N(250), W("%")>> >>),
    Protocol(<< <<W("-damage")>>, KeyDog, Hp(62, 100) >>),
    Protocol(<< <<W("-damage")>>, KeyDog, <<N(250), W("%")>> >>),
    Protocol(<< <<W("-damage")>>, KeyCat, Hp(150, 100) >>),
    Protocol(<< <<W("-damage")>>, KeyCat, <<N(0), W("fnt")>> >>) }

HpBatches == UNION {[1..n -> HpLines] : n \in 1..MaxLines}

\* narrative lines: a move, a move line that is an item line too, a move line with a
\* damage text behind it, a turn marker and a damage line
UsedLines ==
  { <<W("Cat"), W("used"), W("Tackle"), W("!")>>,
    <<W("Cat"), W("used"), W("its"), W("Berry"), W("!")>>,
    <<W("Dog"), W("used"), W("Bite"), W("!"), W("Cat"), W("lost"), N(30), W("%")>>,
    <<W("Turn"), N(3)>>,
    <<W("Cat"), W("lost"), N(30), W("%")>> }

UsedBatches == UNION {[1..n -> UsedLines] : n \in 1..MaxLines}

\* narrative lines that start with a turn marker, alone or with a move, an item or a
\* damage text behind it, and lines without a marker
TurnLines ==
  { <<W("Turn"), N(3)>>,
    <<W("Turn"), N(4), W("Cat"), W("used"), W("Tackle"), W("!")>>,
    <<W("Turn"), N(5), W("Cat"), W("'s"), W("Berry"), W("restored")>>,
    <<W("Turn"), N(6), W("Cat"), W("lost"), N(30), W("%")>>,
    <<W("Dog"), W("used"), W("Bite"), W("!")>>,
    <<W("Cat"), W("lost"), N(30), W("%")>> }

TurnBatches == UNION {[1..n -> TurnLines] : n \in 1..MaxLines}

\* the text log of a replay: a switch at 100% and a -damage record
Transcript ==
  Protocol(<< <<W("switch")>>, KeyDog, <<W("Persian")>>, Hp(100, 100) >>)
    \o <<W("\n")>> \o Protocol(<< <<W("-damage")>>, KeyDog, Hp(62, 100) >>)

\* the URLs that have a server, and what a server may answer
ServedUrls == { <<W("r1"), W(".json")>>, <<W("r2"), W(".json")>> }

Bodies == {Unreachable, NotJson, JsonArray, JsonObject(<<>>), JsonObject(Transcript)}

\* the URLs of a request: with and without ".json", with a "/" or white space at an end,
\* empty, and without a server
UrlInputs ==
  { <<W("r1")>>, <<W("r1"), W(".json")>>, <<W("r2"), W("/")>>, <<W(" "), W("r2")>>,
    <<>>, <<W("r3")>> }

\* most URLs in one request
MaxUrls == 2

UrlLists == UNION {[1..n -> UrlInputs] : n \in 0..MaxUrls}

\* the targets given to clean_damage_target: pad "(" article name ")" pad
Articles ==
  { <<>>, <<W("The")>>, <<W("the")>>, <<W("The"), W("opposing")>>,
    <<W("the"), W("opposing")>> }

TargetNames ==
  { <<W("Dog")>>, <<W("Opposing"), W("Giraffe")>>, <<W("Eddie"), W("the"), W("Great")>>,
    <<W("Cat"), W("the"), W("opposing"), W("Dog")>> }

Opening == { <<>>, <<W("(")>> }

Closing == { <<>>, <<W(")")>> }

Padding == { <<>>, Space }

CleanInput(opening, article, name, closing, pad) ==
  pad \o opening \o article \o name \o closing \o pad

CleanTargets ==
  { CleanInput(o, a, n, c, p) :
      o \in Opening, a \in Articles, n \in TargetNames, c \in Closing, p \in Padding }

\* HP texts: "N%", "A/B" (B divides 100 A, or B is 0), each with or without a status
\* behind it, and texts of neither form
Percent(n) == <<N(n), W("%")>>

PercentValues == {0, 1, 50, 62, 100, 250}

HpValues == {0, 1, 31, 62, 100, 150}

MaxHpValues == {0, 1, 2, 100}

Statuses == { <<>>, <<W("par")>> }

NeitherTexts ==
  { <<>>, <<N(0), W("fnt")>>, <<W("fnt")>>, <<N(62)>>, <<W("/"), N(100)>>,
    <<N(5), W("/"), W("-"), N(3)>> }

HpTexts ==
  {Percent(n) \o s : n \in PercentValues, s \in Statuses}
    \cup {Hp(a, b) \o s : a \in HpValues, b \in MaxHpValues, s \in Statuses}
    \cup NeitherTexts

\* the values a transcript carries, and lines of no marker
FormatValues == { <<W("OU")>>, <<W("Gen"), N(9), W("OU")>> }

PlayerValues == { <<W("Alice")>>, <<W("Bob")>>, <<W("Salt"), W("and"), W("Pepper")>> }

NoMarker ==
  { <<>>,
    << Protocol(<< <<W("turn")>>, <<N(3)>> >>) >>,
    << <<W("Cat"), W("used"), W("Tackle"), W("!")>> >>,
    << Protocol(<< <<W("player")>>, <<W("p3")>>, <<W("Eve")>> >>) >> }

MetaValues ==
  [format : FormatValues, player1 : PlayerValues, player2 : PlayerValues,
   winner : PlayerValues]

\* the protocol transcript that carries values v, other being lines of no marker
ProtocolTranscript(v, other) ==
  << Protocol(<< <<W("tier")>>, v.format >>) >> \o other
    \o << Protocol(<< <<W("player")>>, <<W("p1")>>, v.player1, <<N(1500)>> >>),
          Protocol(<< <<W("player")>>, <<W("p2")>>, v.player2, <<N(1500)>> >>) >>
    \o other \o << Protocol(<< <<W("win")>>, v.winner >>) >>

\* the narrative transcript that carries values v
NarrativeTranscript(v, other) ==
  << <<W("Format:")>> \o v.format >> \o other
    \o << <<W("Battle"), W("started"), W("between")>> \o v.player1 \o <<W("and")>>
            \o v.player2 \o <<W("!")>> >>
    \o other \o << v.winner \o <<W("won"), W("the"), W("battle"), W("!")>> >>

Carried ==
  { [values |-> v, protocol |-> ProtocolTranscript(v, o),
     narrative |-> NarrativeTranscript(v, o)] : v \in MetaValues, o \in NoMarker }

\* the characters a writer appends to the tailed file
FileChars == {"a", "b", "\n"}

\* longest content of the tailed file, and most writes to it
MaxFile == 4

MaxWrites == 4

\* the state files tail_file may find: none, "0", a text that is no number
StateFiles ==
  { NoFile, [exists |-> TRUE, text |-> <<N(0)>>], [exists |-> TRUE, text |-> <<W("x")>>] }

TagBatches == UNION {[1..n -> TagLines] : n \in 1..MaxLines}

\* matches.my_side: NULL, or the slot update_match_side stored or infer_my_side returned
Sides == {Unknown, "p1", "p2"}

(***************************************************************************)
(* State                                                                   *)
(***************************************************************************)

VARIABLES
  fed,       \* the lines passed to parse_log_stream so far, one call per line
  prior,     \* the state argument of the last call
  state,     \* the state the last call returned (initially the empty dict)
  returned,  \* the events the last call returned
  emitted,   \* the events of all calls, in order
  logged,    \* the log lines of all calls, in order
  posted,    \* the lines posted to /api/ingest_line so far, one request after the other
  db,        \* the database tables
  pc,        \* where each concurrent request is in api_ingest_line
  req,       \* the local variables of each concurrent request
  arg,       \* the dict passed as state to the last call, as the caller sees it afterwards
  again      \* <<result>> of a second call with the same lines and the same dict, else <<>>

VARIABLES
  text,       \* the text given to classify_owner
  nicknames,  \* the nicknames given to classify_owner
  my_side,    \* the side slot given to classify_owner
  owner       \* <<label>> once classify_owner has returned, else <<>>

VARIABLES
  match_lines,  \* the raw lines of the match in log_lines, in the order of id
  my_names,  \* the names given to infer_my_side
  inferred,  \* <<slot>> once infer_my_side has returned, else <<>>
  hits       \* <<p1_hits, p2_hits>> as infer_my_side left them, <<>> before

VARIABLES
  detail     \* <<decorated_events>> once match_detail has decorated the events, else <<>>

VARIABLES
  exception  \* the exception the last call of parse_log_stream raised, "" if none

VARIABLES
  match_meta,  \* the metadata given to compute_result
  result_label \* <<label>> once compute_result has returned, else <<>>

VARIABLES
  remote,    \* what each URL serves
  url_list,  \* the "urls" of the request to /api/ingest_replay_bulk
  bulk       \* <<response>> once api_ingest_replay_bulk has ended, else <<>>

VARIABLES
  target_text,  \* the text given to clean_damage_target
  cleaned,      \* <<text>> once clean_damage_target has returned, else <<>>
  hp_field,     \* the text given to _parse_replay_hp
  parsed_hp     \* <<value>> once _parse_replay_hp has returned, else <<>>

VARIABLES
  carried,         \* the two transcripts given to parse_match_meta and the values they carry
  from_protocol,   \* <<meta>> once parse_match_meta has returned for the protocol one
  from_narrative   \* <<meta>> once parse_match_meta has returned for the narrative one

VARIABLES
  tailed,        \* the tailed file: exists, readable, content, and how often it was emptied
  state_file,    \* the .offset file
  position,      \* the position of tail_file
  watch_pc,      \* where tail_file is: "read" or "save"
  sent,          \* the lines passed to post_line, in order
  received,      \* the lines that reached the endpoint, in order
  up,            \* the endpoint is reachable
  writes         \* the number of writes to the tailed file so far

VARIABLES
  replay_file,    \* replays.txt: exists, and its text
  file_pc,        \* where api_ingest_replay_file is: "idle", "clear" or "ingest"
  file_urls,      \* urls of api_ingest_replay_file
  file_response,  \* <<response>> of the last api_ingest_replay_file, else <<>>
  attempted,      \* the URLs passed to _ingest_replay_url by api_ingest_replay_file
  held,           \* the URLs appended to replays.txt that are in it
  removed,        \* the URLs appended to replays.txt that a clearing write removed
  appends         \* the number of appends to replays.txt so far

classifyVars == <<text, nicknames, my_side, owner>>

watchVars == <<tailed, state_file, position, watch_pc, sent, received, up, writes>>

metaVars == <<carried, from_protocol, from_narrative>>

fileVars ==
  <<replay_file, file_pc, file_urls, file_response, attempted, held, removed, appends>>

restVars == <<metaVars, watchVars, fileVars>>

cleanVars == <<target_text, cleaned>>

hpVars == <<hp_field, parsed_hp>>

replayVars == <<remote, url_list, bulk>>

callVars == <<replayVars, cleanVars, hpVars, restVars>>

inferVars == <<match_lines, my_names, inferred, hits>>

resultVars == <<match_meta, result_label>>

labelVars == <<classifyVars, inferVars, detail, resultVars, callVars>>

vars == <<fed, prior, state, returned, emitted, logged, posted, db, pc, req, arg, again,
          exception, labelVars>>

engineVars == <<fed, prior, state, returned, emitted, logged, arg, again, exception>>

NoReq ==
  [line |-> <<>>, match_id |-> 0, state |-> EmptyDict, events |-> <<>>,
   new_state |-> EmptyDict, log_lines |-> <<>>, meta |-> EmptyMeta,
   existing |-> MatchRow("", EmptyMeta, None)]

InitEngine ==
  /\ fed = <<>> /\ prior = EmptyDict /\ state = EmptyDict
  /\ returned = <<>> /\ emitted = <<>> /\ logged = <<>>
  /\ arg = EmptyDict /\ again = <<>> /\ exception = ""

\* nothing to classify
InitOwner == text = <<>> /\ nicknames = NoNicknames /\ my_side = Unknown /\ owner = <<>>

\* no rows and no names
InitSide == match_lines = <<>> /\ my_names = <<>> /\ inferred = <<>> /\ hits = <<>>

\* no metadata
InitResult == match_meta = EmptyMeta /\ result_label = <<>>

\* nothing to clean, nothing to parse
InitClean == target_text = <<>> /\ cleaned = <<>>

InitHp == hp_field = <<>> /\ parsed_hp = <<>>

\* no servers and no request
InitReplay == remote = <<>> /\ url_list = <<>> /\ bulk = <<>>

\* no transcripts
InitMeta == carried = <<>> /\ from_protocol = <<>> /\ from_narrative = <<>>

\* no tailed file, no state file
InitWatch ==
  /\ tailed = [exists |-> FALSE, readable |-> TRUE, content |-> <<>>, emptied |-> 0]
  /\ state_file = NoFile /\ position = 0 /\ watch_pc = "read"
  /\ sent = <<>> /\ received = <<>> /\ up = TRUE /\ writes = 0

\* no replays.txt, no request
InitFile ==
  /\ replay_file = NoFile /\ file_pc = "idle" /\ file_urls = <<>> /\ file_response = <<>>
  /\ attempted = <<>> /\ held = {} /\ removed = {} /\ appends = 0

InitRest == InitMeta /\ InitWatch /\ InitFile

InitCall == InitReplay /\ InitClean /\ InitHp /\ InitRest

InitLabel == InitOwner /\ InitSide /\ detail = <<>> /\ InitResult /\ InitCall

InitStore == posted = <<>> /\ db = EmptyDb

InitRequests == pc = [r \in Requests |-> "idle"] /\ req = [r \in Requests |-> NoReq]

Init == InitEngine /\ InitStore /\ InitRequests /\ InitLabel

(***************************************************************************)
(* A caller threading the ParseState through one call per line             *)
(***************************************************************************)

\* the caller's variables after a call on lines that returned result
Returned(lines, result) ==
  /\ fed' = fed \o lines
  /\ prior' = state
  /\ state' = result.state
  /\ returned' = result.events
  /\ emitted' = emitted \o result.events
  /\ logged' = logged \o result.log_lines
  /\ arg' = ArgAfter(state, result.state)
  /\ again' = <<>>
  /\ exception' = ""
  /\ UNCHANGED <<labelVars, posted, db, pc, req>>

\* events, new_state, log_lines = parse_log_stream([line], state)
Call(line) == Returned(<<line>>, parse_log_stream(<<line>>, state))

Feed == \E line \in Lines : Len(fed) < MaxLines /\ Call(line)

Next == Feed

Spec == Init /\ [][Next]_vars

(***************************************************************************)
(* One call on one line from a state left by earlier calls                 *)
(***************************************************************************)

InitLine ==
  /\ fed = <<>> /\ prior = EmptyDict /\ state \in PriorStates
  /\ returned = <<>> /\ emitted = <<>> /\ logged = <<>>
  /\ arg = EmptyDict /\ again = <<>> /\ exception = ""
  /\ InitStore /\ InitRequests /\ InitLabel

FeedNarrative == \E line \in NarrLines : fed = <<>> /\ Call(line)

FeedProtocol == \E line \in Lines : fed = <<>> /\ Call(line)

NextLine == FeedNarrative \/ FeedProtocol

SpecLine == InitLine /\ [][NextLine]_vars

(***************************************************************************)
(* One call on one line, then the same call again: the same lines and the  *)
(* same dict object as state                                               *)
(***************************************************************************)

\* parse_log_stream([line], s) a second time, s being the dict the first call was given
Repeat ==
  /\ fed # <<>> /\ again = <<>>
  /\ again' = <<parse_log_stream(<<fed[Len(fed)]>>, arg)>>
  /\ UNCHANGED <<fed, prior, state, returned, emitted, logged, arg, exception>>
  /\ UNCHANGED <<labelVars, posted, db, pc, req>>

NextRepeat == FeedNarrative \/ FeedProtocol \/ Repeat

SpecRepeat == InitLine /\ [][NextRepeat]_vars

(***************************************************************************)
(* /api/ingest_line, one request after the other                           *)
(***************************************************************************)

PostLine ==
  \E line \in Lines :
    /\ Len(posted) < MaxLines
    /\ posted' = Append(posted, line)
    /\ db' = IngestLine(db, line)
    /\ UNCHANGED <<labelVars, engineVars, pc, req>>

NextIngest == PostLine

SpecIngest == Init /\ [][NextIngest]_vars

(***************************************************************************)
(* Raw lines, with white space at their ends: either a caller of           *)
(* parse_log_stream that passes some lines per call, or requests to        *)
(* /api/ingest_line                                                        *)
(***************************************************************************)

\* events, new_state, log_lines = parse_log_stream(batch, state)
FeedRaw ==
  \E batch \in RawBatches :
    /\ posted = <<>>
    /\ Len(fed) + Len(batch) <= MaxLines
    /\ Returned(batch, parse_log_stream(batch, state))

PostRaw ==
  \E raw \in RawLines :
    /\ fed = <<>>
    /\ Len(posted) < MaxLines
    /\ posted' = Append(posted, raw)
    /\ db' = IngestLine(db, raw)
    /\ UNCHANGED <<labelVars, engineVars, pc, req>>

NextTrim == FeedRaw \/ PostRaw

SpecTrim == Init /\ [][NextTrim]_vars

(***************************************************************************)
(* One call on some move and -damage lines from a state left by earlier    *)
(* calls                                                                   *)
(***************************************************************************)

\* events, new_state, log_lines = parse_log_stream(batch, state)
FeedMoves ==
  \E batch \in MoveBatches : fed = <<>> /\ Returned(batch, parse_log_stream(batch, state))

NextMoves == FeedMoves

SpecMoves == InitLine /\ [][NextMoves]_vars

(***************************************************************************)
(* One call on some lines with numeric fields, from a state left by        *)
(* earlier calls                                                           *)
(***************************************************************************)

\* the caller's variables after a call on lines out of which an exception came: it has
\* no result
Failed(lines, error) ==
  /\ fed' = fed \o lines
  /\ prior' = state
  /\ exception' = error.exception
  /\ UNCHANGED <<state, returned, emitted, logged, arg, again>>
  /\ UNCHANGED <<labelVars, posted, db, pc, req>>

\* the caller's variables after a call on lines
Outcome(lines, result) ==
  IF result = Raised THEN Failed(lines, result) ELSE Returned(lines, result)

\* events, new_state, log_lines = parse_log_stream(batch, state)
FeedNumbers ==
  \E batch \in NumberBatches : fed = <<>> /\ Outcome(batch, parse_log_stream(batch, state))

NextNumbers == FeedNumbers

SpecNumbers == InitLine /\ [][NextNumbers]_vars

(***************************************************************************)
(* One call on some records, from a state left by earlier calls            *)
(***************************************************************************)

\* events, new_state, log_lines = parse_log_stream(batch, state)
FeedTags ==
  \E batch \in TagBatches : fed = <<>> /\ Returned(batch, parse_log_stream(batch, state))

NextTags == FeedTags

\* events, new_state, log_lines = parse_log_stream(batch, state)
FeedTurns ==
  \E batch \in TurnBatches : fed = <<>> /\ Returned(batch, parse_log_stream(batch, state))

NextTurns == FeedTurns

SpecTurns == InitLine /\ [][NextTurns]_vars

\* events, new_state, log_lines = parse_log_stream(batch, state)
FeedUsed ==
  \E batch \in UsedBatches : fed = <<>> /\ Returned(batch, parse_log_stream(batch, state))

NextUsed == FeedUsed

SpecUsed == InitLine /\ [][NextUsed]_vars

\* events, new_state, log_lines = parse_log_stream(batch, state)
FeedHp ==
  \E batch \in HpBatches : fed = <<>> /\ Returned(batch, parse_log_stream(batch, state))

NextHp == FeedHp

SpecHp == InitLine /\ [][NextHp]_vars

SpecTags == InitLine /\ [][NextTags]_vars

(***************************************************************************)
(* /api/ingest_line, two requests served by two threads.  Every request    *)
(* has its own connection; a step is one SQL statement, or the statements  *)
(* of one transaction, which other connections see at its commit.          *)
(***************************************************************************)

\* line = str(data.get("line", "")).strip(); if not line: return {"status": "ignored"}
Receive(r) ==
  \E line \in ConcLines :
    /\ pc[r] = "idle"
    /\ req' = [req EXCEPT ![r].line = strip(line)]
    /\ pc' = [pc EXCEPT ![r] = IF strip(line) = <<>> THEN "done" ELSE "select_live"]
    /\ UNCHANGED <<labelVars, engineVars, posted, db>>

\* get_or_create_live_match: the SELECT
SelectLiveRow(r) ==
  /\ pc[r] = "select_live"
  /\ req' = [req EXCEPT ![r].match_id = SelectLive(db)]
  /\ pc' = [pc EXCEPT ![r] = IF SelectLive(db) # 0 THEN "get_state" ELSE "insert_live"]
  /\ UNCHANGED <<labelVars, engineVars, posted, db>>

\* get_or_create_live_match: the INSERTs and the commit when the SELECT found no row
InsertLiveRow(r) ==
  /\ pc[r] = "insert_live"
  /\ db' = InsertLive(db)
  /\ req' = [req EXCEPT ![r].match_id = Len(db.matches) + 1]
  /\ pc' = [pc EXCEPT ![r] = "get_state"]
  /\ UNCHANGED <<labelVars, engineVars, posted>>

\* the locals of a request after parse_log_stream has returned result
WithResult(locals, result) ==
  [locals EXCEPT !.events = result.events, !.new_state = result.state,
                 !.log_lines = result.log_lines]

\* the locals of a request after it has read state st and parsed its line
Parsed(locals, st) ==
  WithResult([locals EXCEPT !.state = st, !.meta = parse_match_meta(<<locals.line>>)],
             parse_log_stream(<<locals.line>>, st))

\* state = get_match_state(match_id), then parse_log_stream and parse_match_meta on the line
GetState(r) ==
  /\ pc[r] = "get_state"
  /\ req' = [req EXCEPT ![r] = Parsed(req[r], get_match_state(db, req[r].match_id))]
  /\ db' = EnsureStateRow(db, req[r].match_id)
  /\ pc' = [pc EXCEPT ![r] = "meta_select"]
  /\ UNCHANGED <<labelVars, engineVars, posted>>

\* apply_match_meta: the SELECT
MetaSelect(r) ==
  /\ pc[r] = "meta_select"
  /\ req' = [req EXCEPT ![r].existing = db.matches[req[r].match_id]]
  /\ pc' = [pc EXCEPT ![r] = "meta_update"]
  /\ UNCHANGED <<labelVars, engineVars, posted, db>>

\* apply_match_meta: the UPDATE and the commit
MetaUpdate(r) ==
  /\ pc[r] = "meta_update"
  /\ db' = UpdateMatch(db, req[r].match_id, UpdatedRow(req[r].existing, req[r].meta))
  /\ pc' = [pc EXCEPT ![r] = "insert_rows"]
  /\ UNCHANGED <<labelVars, engineVars, posted, req>>

\* the INSERTs INTO events and log_lines and the commit
StoreRows(r) ==
  /\ pc[r] = "insert_rows"
  /\ db' = InsertRows(db, req[r].match_id, req[r].events, req[r].log_lines)
  /\ pc' = [pc EXCEPT ![r] = "update_state"]
  /\ UNCHANGED <<labelVars, engineVars, posted, req>>

\* update_match_state(match_id, new_state)
UpdateState(r) ==
  /\ pc[r] = "update_state"
  /\ db' = update_match_state(db, req[r].match_id, req[r].new_state)
  /\ pc' = [pc EXCEPT ![r] = "done"]
  /\ UNCHANGED <<labelVars, engineVars, posted, req>>

NextConc ==
  \E r \in Requests :
    \/ Receive(r)
    \/ SelectLiveRow(r)
    \/ InsertLiveRow(r)
    \/ GetState(r)
    \/ MetaSelect(r)
    \/ MetaUpdate(r)
    \/ StoreRows(r)
    \/ UpdateState(r)

SpecConc == Init /\ [][NextConc]_vars

(***************************************************************************)
(* classify_owner on one text                                              *)
(***************************************************************************)

InitClassify ==
  /\ InitEngine /\ InitStore /\ InitRequests
  /\ text \in ClassifyTexts /\ nicknames \in NicknameSets /\ my_side \in Sides
  /\ owner = <<>>
  /\ InitSide /\ detail = <<>> /\ InitResult /\ InitCall

\* owner = classify_owner(text, nicknames, my_side=my_side)
Classify ==
  /\ owner = <<>>
  /\ owner' = <<classify_owner(text, nicknames, my_side)>>
  /\ UNCHANGED <<text, nicknames, my_side, inferVars, detail, resultVars, callVars>>
  /\ UNCHANGED <<engineVars, posted, db, pc, req>>

NextClassify == Classify

SpecClassify == InitClassify /\ [][NextClassify]_vars

(***************************************************************************)
(* infer_my_side on the log lines of a match                               *)
(***************************************************************************)

InitInfer ==
  /\ InitEngine /\ InitStore /\ InitRequests /\ InitOwner
  /\ match_lines \in RowLists /\ my_names \in NameLists /\ inferred = <<>> /\ hits = <<>>
  /\ detail = <<>> /\ InitResult /\ InitCall

\* infer_my_side(db, match_id, my_names)
Infer ==
  /\ inferred = <<>>
  /\ inferred' = <<infer_my_side(match_lines, my_names)>>
  /\ hits' = Counters(match_lines, my_names)
  /\ UNCHANGED <<match_lines, my_names, detail, resultVars, classifyVars, callVars>>
  /\ UNCHANGED <<engineVars, posted, db, pc, req>>

NextInfer == Infer

SpecInfer == InitInfer /\ [][NextInfer]_vars

(***************************************************************************)
(* match_detail on a match whose lines were parsed and stored              *)
(***************************************************************************)

InitDetail ==
  /\ InitEngine /\ InitStore /\ InitRequests
  /\ text = <<>> /\ owner = <<>> /\ my_names = <<>> /\ inferred = <<>> /\ hits = <<>>
  /\ nicknames \in NicknameSets /\ my_side \in Sides /\ match_lines \in DetailLists
  /\ detail = <<>> /\ InitResult /\ InitCall

\* the events of the match: what parse_log_stream returned for its lines
EventsOf(lines) == parse_log_stream(lines, EmptyDict).events

\* GET /match/<match_id>
Decorate ==
  /\ detail = <<>>
  /\ detail' = <<match_detail(nicknames, my_side, match_lines, EventsOf(match_lines))>>
  /\ UNCHANGED <<classifyVars, inferVars, resultVars, callVars>>
  /\ UNCHANGED <<engineVars, posted, db, pc, req>>

NextDetail == Decorate

SpecDetail == InitDetail /\ [][NextDetail]_vars

(***************************************************************************)
(* compute_result on the metadata of a match                               *)
(***************************************************************************)

InitCompute ==
  /\ InitEngine /\ InitStore /\ InitRequests /\ InitOwner /\ InitSide /\ detail = <<>>
  /\ match_meta \in Metas /\ result_label = <<>> /\ InitCall

\* compute_result(meta)
Compute ==
  /\ result_label = <<>>
  /\ result_label' = <<compute_result(match_meta)>>
  /\ UNCHANGED <<match_meta, classifyVars, inferVars, detail, callVars>>
  /\ UNCHANGED <<engineVars, posted, db, pc, req>>

NextCompute == Compute

SpecCompute == InitCompute /\ [][NextCompute]_vars

(***************************************************************************)
(* /api/ingest_replay_bulk on a list of URLs                               *)
(***************************************************************************)

InitBulk ==
  /\ InitEngine /\ InitStore /\ InitRequests /\ InitOwner /\ InitSide /\ detail = <<>>
  /\ InitResult
  /\ remote \in [ServedUrls -> Bodies] /\ url_list \in UrlLists /\ bulk = <<>>
  /\ InitClean /\ InitHp /\ InitRest

\* POST /api/ingest_replay_bulk with {"urls": url_list}
PostBulk ==
  /\ bulk = <<>>
  /\ bulk' = <<api_ingest_replay_bulk(db, remote, url_list).response>>
  /\ db' = api_ingest_replay_bulk(db, remote, url_list).db
  /\ UNCHANGED <<remote, url_list, cleanVars, hpVars, restVars>>
  /\ UNCHANGED <<classifyVars, inferVars, detail, resultVars>>
  /\ UNCHANGED <<engineVars, posted, pc, req>>

NextBulk == PostBulk

SpecBulk == InitBulk /\ [][NextBulk]_vars

(***************************************************************************)
(* clean_damage_target on one target                                       *)
(***************************************************************************)

InitCleanCall ==
  /\ InitEngine /\ InitStore /\ InitRequests /\ InitOwner /\ InitSide /\ detail = <<>>
  /\ InitResult /\ InitReplay /\ InitHp /\ InitRest
  /\ target_text \in CleanTargets /\ cleaned = <<>>

\* cleaned = clean_damage_target(target_text)
Clean ==
  /\ cleaned = <<>>
  /\ cleaned' = <<clean_damage_target(target_text)>>
  /\ UNCHANGED <<target_text, replayVars, hpVars, restVars>>
  /\ UNCHANGED <<classifyVars, inferVars, detail, resultVars>>
  /\ UNCHANGED <<engineVars, posted, db, pc, req>>

NextClean == Clean

SpecClean == InitCleanCall /\ [][NextClean]_vars

(***************************************************************************)
(* _parse_replay_hp on one HP text                                         *)
(***************************************************************************)

InitHpCall ==
  /\ InitEngine /\ InitStore /\ InitRequests /\ InitOwner /\ InitSide /\ detail = <<>>
  /\ InitResult /\ InitReplay /\ InitClean /\ InitRest
  /\ hp_field \in HpTexts /\ parsed_hp = <<>>

\* parsed_hp = _parse_replay_hp(hp_field)
ParseHp ==
  /\ parsed_hp = <<>>
  /\ parsed_hp' = <<_parse_replay_hp(hp_field)>>
  /\ UNCHANGED <<hp_field, replayVars, cleanVars, restVars>>
  /\ UNCHANGED <<classifyVars, inferVars, detail, resultVars>>
  /\ UNCHANGED <<engineVars, posted, db, pc, req>>

NextHpCall == ParseHp

SpecHpCall == InitHpCall /\ [][NextHpCall]_vars

(***************************************************************************)
(* parse_match_meta on a protocol and on a narrative transcript            *)
(***************************************************************************)

InitMetaCall ==
  /\ InitEngine /\ InitStore /\ InitRequests /\ InitOwner /\ InitSide /\ detail = <<>>
  /\ InitResult /\ InitReplay /\ InitClean /\ InitHp /\ InitWatch /\ InitFile
  /\ carried \in Carried /\ from_protocol = <<>> /\ from_narrative = <<>>

\* meta = parse_match_meta(lines) for the protocol transcript
ParseProtocolMeta ==
  /\ from_protocol = <<>>
  /\ from_protocol' = <<parse_match_meta(carried.protocol)>>
  /\ UNCHANGED <<carried, from_narrative, replayVars, cleanVars, hpVars,
               watchVars, fileVars>>
  /\ UNCHANGED <<classifyVars, inferVars, detail, resultVars>>
  /\ UNCHANGED <<engineVars, posted, db, pc, req>>

\* meta = parse_match_meta(lines) for the narrative transcript
ParseNarrativeMeta ==
  /\ from_narrative = <<>>
  /\ from_narrative' = <<parse_match_meta(carried.narrative)>>
  /\ UNCHANGED <<carried, from_protocol, replayVars, cleanVars, hpVars,
               watchVars, fileVars>>
  /\ UNCHANGED <<classifyVars, inferVars, detail, resultVars>>
  /\ UNCHANGED <<engineVars, posted, db, pc, req>>

NextMeta == ParseProtocolMeta \/ ParseNarrativeMeta

SpecMeta == InitMetaCall /\ [][NextMeta]_vars

(***************************************************************************)
(* tail_file, the writer of the tailed file and the endpoint               *)
(***************************************************************************)

\* tail_file starts: position = _load_position(state_path); either on a new file, or on
\* the file "a\n" that an earlier run has read, posted and saved the offset of
InitTail ==
  /\ InitEngine /\ InitStore /\ InitRequests /\ InitOwner /\ InitSide /\ detail = <<>>
  /\ InitResult /\ InitReplay /\ InitClean /\ InitHp /\ InitMeta /\ InitFile
  /\ \/ /\ tailed \in { [exists |-> e, readable |-> TRUE, content |-> <<>>, emptied |-> 0] :
                          e \in BOOLEAN }
        /\ state_file \in StateFiles
        /\ sent = <<>> /\ received = <<>>
     \/ /\ tailed = [exists |-> TRUE, readable |-> TRUE, content |-> <<"a", "\n">>,
                     emptied |-> 0]
        /\ state_file = _save_position(2)
        /\ sent = << <<"a">> >> /\ received = << <<"a">> >>
  /\ position = _load_position(state_file)
  /\ watch_pc = "read" /\ up \in BOOLEAN /\ writes = 0

Others ==
  /\ UNCHANGED <<classifyVars, inferVars, detail, resultVars, replayVars, cleanVars, hpVars>>
  /\ UNCHANGED <<metaVars, fileVars, engineVars, posted, db, pc, req>>

\* the writer appends a character, creating the file if there is none
WriterAppend ==
  \E c \in FileChars :
    /\ writes < MaxWrites /\ Len(tailed.content) < MaxFile
    /\ tailed' = [tailed EXCEPT !.exists = TRUE, !.content = Append(@, c)]
    /\ writes' = writes + 1
    /\ UNCHANGED <<state_file, position, watch_pc, sent, received, up>>
    /\ Others

\* the file is truncated: a new log starts in it
WriterTruncate ==
  /\ writes < MaxWrites /\ tailed.exists /\ tailed.content # <<>>
  /\ tailed' = [tailed EXCEPT !.content = <<>>, !.emptied = @ + 1]
  /\ writes' = writes + 1
  /\ UNCHANGED <<state_file, position, watch_pc, sent, received, up>>
  /\ Others

\* the file is removed
WriterRemove ==
  /\ writes < MaxWrites /\ tailed.exists
  /\ tailed' = [tailed EXCEPT !.exists = FALSE, !.content = <<>>, !.emptied = @ + 1]
  /\ writes' = writes + 1
  /\ UNCHANGED <<state_file, position, watch_pc, sent, received, up>>
  /\ Others

\* the file can no longer be opened (its permissions, or a lock of the writer), or can again
WriterLock ==
  /\ tailed.exists
  /\ tailed' = [tailed EXCEPT !.readable = ~@]
  /\ UNCHANGED <<state_file, position, watch_pc, sent, received, up, writes>>
  /\ Others

\* the endpoint goes down or comes up
Endpoint ==
  /\ up' = ~up
  /\ UNCHANGED <<tailed, state_file, position, watch_pc, sent, received, writes>>
  /\ Others

\* what tail_file holds after position = _read_new_lines(path, position, url) read
AfterRead(read) ==
  /\ position' = read.position
  /\ sent' = sent \o read.lines
  /\ received' = received \o post_line(read.lines, up)

\* position = _read_new_lines(path, position, url)
ReadNewLines ==
  /\ watch_pc = "read"
  /\ AfterRead(_read_new_lines(tailed, position))
  /\ watch_pc' = "save"
  /\ UNCHANGED <<tailed, state_file, up, writes>>
  /\ Others

\* _save_position(state_path, position); time.sleep(0.5)
SavePosition ==
  /\ watch_pc = "save"
  /\ state_file' = _save_position(position)
  /\ watch_pc' = "read"
  /\ UNCHANGED <<tailed, position, sent, received, up, writes>>
  /\ Others

NextTail ==
  \/ WriterAppend \/ WriterTruncate \/ WriterRemove \/ WriterLock \/ Endpoint
  \/ ReadNewLines \/ SavePosition

SpecTail == InitTail /\ [][NextTail]_vars

(***************************************************************************)
(* /api/ingest_replay_file and a process that appends to replays.txt       *)
(***************************************************************************)

\* what is appended to replays.txt, and the URLs it stands for: a bare name, a name with
\* ".json", a URL with a scheme and a "/", a sentence with two URLs, a blank line
ReplayEntries ==
  { [line |-> <<W("r1")>>, urls |-> { <<W("r1"), W(".json")>> }],
    [line |-> <<W("r2"), W(".json")>>, urls |-> { <<W("r2"), W(".json")>> }],
    [line |-> <<Scheme, W("r2"), W("/")>>, urls |-> { <<Scheme, W("r2"), W(".json")>> }],
    [line |-> <<W("see"), W(" "), Scheme, W("r1"), W(" "), Scheme, W("r3")>>,
     urls |-> { <<Scheme, W("r1"), W(".json")>>, <<Scheme, W("r3"), W(".json")>> }],
    [line |-> <<W(" ")>>, urls |-> {}] }

\* most appends to replays.txt
MaxAppends == 2

FileBodies == {Unreachable, JsonArray, JsonObject(Transcript)}

InitFileCall ==
  /\ InitEngine /\ InitStore /\ InitRequests /\ InitOwner /\ InitSide /\ detail = <<>>
  /\ InitResult /\ InitClean /\ InitHp /\ InitMeta /\ InitWatch
  /\ remote \in [ServedUrls -> FileBodies] /\ url_list = <<>> /\ bulk = <<>>
  /\ replay_file \in {NoFile, [exists |-> TRUE, text |-> <<>>]}
  /\ file_pc = "idle" /\ file_urls = <<>> /\ file_response = <<>>
  /\ attempted = <<>> /\ held = {} /\ removed = {} /\ appends = 0

FileOthers ==
  /\ UNCHANGED <<classifyVars, inferVars, detail, resultVars, replayVars, cleanVars, hpVars>>
  /\ UNCHANGED <<metaVars, watchVars, engineVars, posted, pc, req>>

\* another process appends a line to replays.txt, creating it if there is none
AppendUrl ==
  \E entry \in ReplayEntries :
    /\ appends < MaxAppends
    /\ replay_file' = [exists |-> TRUE, text |-> replay_file.text \o entry.line \o <<W("\n")>>]
    /\ held' = held \cup entry.urls
    /\ appends' = appends + 1
    /\ UNCHANGED <<file_pc, file_urls, file_response, attempted, removed, db>>
    /\ FileOthers

\* POST /api/ingest_replay_file, as watch_replay_file sends it: the exists test,
\* text = replay_file.read_text() and urls = _extract_replay_urls(text)
FileRead ==
  /\ file_pc = "idle"
  /\ IF ~replay_file.exists
     THEN /\ file_response' = <<[status |-> "error", message |-> "replays.txt not found"]>>
          /\ UNCHANGED <<file_pc, file_urls>>
     ELSE /\ file_urls' = _extract_replay_urls(replay_file.text)
          /\ file_pc' = "clear"
          /\ file_response' = <<>>
  /\ UNCHANGED <<replay_file, attempted, held, removed, appends, db>>
  /\ FileOthers

\* replay_file.write_text(""), and the response when urls is empty
FileClear ==
  /\ file_pc = "clear"
  /\ replay_file' = [exists |-> TRUE, text |-> <<>>]
  /\ removed' = removed \cup held
  /\ held' = {}
  /\ IF file_urls = <<>>
     THEN /\ file_response' = <<[status |-> "error", message |-> "no urls found",
                                 cleared |-> TRUE]>>
          /\ file_pc' = "idle"
     ELSE /\ file_pc' = "ingest"
          /\ UNCHANGED file_response
  /\ UNCHANGED <<file_urls, attempted, appends, db>>
  /\ FileOthers

\* `for url in urls` and the summary
FileIngest ==
  /\ file_pc = "ingest"
  /\ db' = BulkLoop(db, remote, file_urls, 1, <<>>, 0).db
  /\ file_response' = <<FileResponse(BulkLoop(db, remote, file_urls, 1, <<>>, 0).response)>>
  /\ attempted' = attempted \o Attempts(db, remote, file_urls, 1)
  /\ file_pc' = "idle"
  /\ UNCHANGED <<replay_file, file_urls, held, removed, appends>>
  /\ FileOthers

NextFile == AppendUrl \/ FileRead \/ FileClear \/ FileIngest

SpecFile == InitFileCall /\ [][NextFile]_vars

(***************************************************************************)
(* One call on a batch of turn markers and lines with events               *)
(***************************************************************************)

\* turn markers of both dialects, one of them not a number, one behind white space and
\* one followed by a damage clause; a line with an item and a damage clause; damage lines
\* of both dialects with white space at their ends; a line of white space
OrderLines ==
  { Space \o <<W("Turn"), N(4)>>,
    Protocol(<< <<W("turn")>>, <<N(3)>> >>),
    Protocol(<< <<W("turn")>>, <<W("Bite")>> >>),
    <<W("Turn"), N(6), W("Cat"), W("lost"), N(30), W("%")>>,
    <<W("Cat"), W("used"), W("its"), W("Berry"), W("Cat"), W("lost"), N(30), W("%")>>,
    Protocol(<< <<W("-damage")>>, KeyDog, Hp(62, 100) >>) \o Space,
    Space \o <<W("Dog"), W("lost"), N(30), W("%")>> \o Space,
    Space }

OrderBatches == UNION {[1..n -> OrderLines] : n \in 1..MaxLines}

\* events, new_state, log_lines = parse_log_stream(batch, state)
FeedOrder ==
  \E batch \in OrderBatches : fed = <<>> /\ Returned(batch, parse_log_stream(batch, state))

NextOrder == FeedOrder

SpecOrder == InitLine /\ [][NextOrder]_vars

(***************************************************************************)
(* /api/ingest_line on the lines of a transcript that carry metadata       *)
(***************************************************************************)

\* the lines of a streamed transcript: players, a player line without a name, winners, a
\* tier, the narrative forms, and lines that carry no metadata
StreamLines ==
  { Protocol(<< <<W("player")>>, <<W("p1")>>, <<W("Alice")>>, <<N(1500)>> >>),
    Protocol(<< <<W("player")>>, <<W("p1")>>, <<W("Bob")>> >>),
    Protocol(<< <<W("player")>>, <<W("p2")>>, <<W("Bob")>> >>),
    Protocol(<< <<W("player")>>, <<W("p1")>>, <<>> >>),
    Protocol(<< <<W("win")>>, <<W("Alice")>> >>),
    Protocol(<< <<W("win")>>, <<W("Bob")>> >>),
    Protocol(<< <<W("tier")>>, <<W("OU")>> >>),
    <<W("Battle"), W("started"), W("between"), W("Alice"), W("and"), W("Bob"), W("!")>>,
    <<W("Bob"), W("won"), W("the"), W("battle"), W("!")>>,
    Protocol(<< <<W("turn")>>, <<N(3)>> >>),
    <<W("Cat"), W("used"), W("Tackle"), W("!")>> }

\* POST /api/ingest_line with the next line of the transcript
PostStream ==
  \E line \in StreamLines :
    /\ Len(posted) < MaxLines
    /\ posted' = Append(posted, line)
    /\ db' = IngestLine(db, line)
    /\ UNCHANGED <<labelVars, engineVars, pc, req>>

NextStream == PostStream

SpecStream == Init /\ [][NextStream]_vars

(***************************************************************************)
(* Properties                                                              *)
(***************************************************************************)

\* two ParseStates agree on turn, last_actor, last_move and hp_pct
SameState(a, b) ==
  /\ StateGet(a, "turn", NoneNum) = StateGet(b, "turn", NoneNum)
  /\ StateGet(a, "last_actor", None) = StateGet(b, "last_actor", None)
  /\ StateGet(a, "last_move", None) = StateGet(b, "last_move", None)
  /\ StateGet(a, "hp_pct", EmptyDict) = StateGet(b, "hp_pct", EmptyDict)

\* the events of a kind among events, in order
OfType(events, kind) == SelectSeq(events, LAMBDA e : e.event_type = kind)

LastLine == fed[Len(fed)]

IsProtocol(line) == line # <<>> /\ line[1] = Bar

\* C1: after any number of one-line calls, each given the state the call before it
\* returned, the events of all calls in order and the state last returned equal the
\* events and the state of one call on the whole transcript from the empty state.
C1_ThreadedEqualsBatch ==
  LET batch == parse_log_stream(fed, EmptyDict)
  IN emitted = batch.events /\ SameState(state, batch.state)

\* a damage magnitude was computed in a later call from a reading recorded in an earlier one
C1_Witness ==
  /\ Len(fed) >= 2
  /\ returned # <<>>
  /\ IsProtocol(LastLine)
  /\ returned[1].value_low > 0
  /\ emitted = parse_log_stream(fed, EmptyDict).events

\* the events stored for a match, in insertion order
StoredEvents(database, match_id) ==
  LET rows == SelectSeq(database.events, LAMBDA row : row.match_id = match_id)
  IN [i \in 1..Len(rows) |-> rows[i].event]

\* C2: after any number of lines posted to /api/ingest_line one after the other, the
\* events stored for the live match equal the events of the batch parse of the posted
\* lines from the empty state, and the state get_match_state reloads equals the state of
\* that batch parse, hp_pct included.
C2_StoredEqualsBatch ==
  LET batch == parse_log_stream(posted, EmptyDict)
      live == SelectLive(db)
  IN /\ StoredEvents(db, live) = batch.events
     /\ live # 0 => SameState(get_match_state(db, live), batch.state)

RECURSIVE PrevReading(_, _, _)

\* the percentage of the last line among lines[1..i] that carries a parseable HP text
\* for target-key key, NoneNum if there is none
PrevReading(lines, key, i) ==
  IF i = 0 THEN NoneNum
  ELSE LET p == IF IsProtocol(lines[i]) THEN parse_replay_line(lines[i]) ELSE EmptyResult
       IN IF p.event \in {"hp_update", "damage"} /\ p.target_key = key
          THEN p.current_hp_pct
          ELSE PrevReading(lines, key, i - 1)

\* C3: a -damage line with parseable HP emits one Damage event; its value_low and
\* value_high are both null when no earlier line carried a reading for its target-key,
\* and both max(previous - current, 0) otherwise, for every target-key, the empty one
\* included.
C3_DamageMagnitude ==
  (fed # <<>> /\ IsProtocol(LastLine) /\ parse_replay_line(LastLine).event = "damage") =>
    LET p == parse_replay_line(LastLine)
        prev == PrevReading(fed, p.target_key, Len(fed) - 1)
        expected == IF prev = NoneNum THEN NoneNum ELSE max(prev - p.current_hp_pct, 0)
    IN /\ Len(returned) = 1
       /\ returned[1].event_type = "damage"
       /\ returned[1].value_low = expected
       /\ returned[1].value_high = expected

\* C4: a switch/drag/replace line with parseable HP emits no event and records the
\* percentage under its target-key; a -damage line with parseable HP right after it for
\* the same target-key emits exactly one Damage event whose value_low and value_high are
\* the switch percentage minus the damage-line percentage.
C4_SwitchThenDamage ==
  /\ (fed # <<>> /\ IsProtocol(LastLine) /\ parse_replay_line(LastLine).event = "hp_update") =>
       /\ returned = <<>>
       /\ MapGet(StateGet(state, "hp_pct", EmptyDict), parse_replay_line(LastLine).target_key)
            = parse_replay_line(LastLine).current_hp_pct
  /\ (Len(fed) >= 2 /\ IsProtocol(LastLine) /\ IsProtocol(fed[Len(fed) - 1])) =>
       LET s == parse_replay_line(fed[Len(fed) - 1])
           d == parse_replay_line(LastLine)
       IN (s.event = "hp_update" /\ d.event = "damage" /\ s.target_key = d.target_key) =>
            /\ Len(returned) = 1
            /\ returned[1].event_type = "damage"
            /\ returned[1].value_low = s.current_hp_pct - d.current_hp_pct
            /\ returned[1].value_high = s.current_hp_pct - d.current_hp_pct

\* C5: when two concurrent requests have both finished, the stored match_state and the
\* stored events are those of handling the two lines one after the other, in one of the
\* two orders.
C5_Serializable ==
  (\A r \in Requests : pc[r] = "done") =>
    \E order \in {<<1, 2>>, <<2, 1>>} :
      LET serial == IngestLine(IngestLine(EmptyDb, req[order[1]].line), req[order[2]].line)
      IN db.match_state = serial.match_state /\ db.events = serial.events

\* C6: every event of a call has value_low and value_high both present or both absent,
\* and value_low <= value_high when present.
C6_ValueRange ==
  \A i \in 1..Len(returned) :
    /\ (returned[i].value_low = NoneNum) <=> (returned[i].value_high = NoneNum)
    /\ returned[i].value_low # NoneNum => returned[i].value_low <= returned[i].value_high

OfItsHealth == <<W("of"), W("its"), W("health")>>

FromEddie == <<W("from"), W("Eddie"), W("'s"), W("Tackle")>>

\* C7: the line "Opposing Giraffe lost 30% [of its health] from Eddie's Tackle" yields
\* one Damage event with target "Giraffe", actor "Eddie", move "Tackle" and
\* value_low = value_high = 30.
C7_OpposingPrefixRemoved ==
  \A filler \in {<<>>, OfItsHealth} :
    LET line == <<W("Opposing"), W("Giraffe"), W("lost"), N(30), W("%")>> \o filler \o FromEddie
    IN fed = <<line>> =>
         returned = <<Event("damage", <<W("Eddie")>>, <<W("Giraffe")>>, <<W("Tackle")>>,
                            StateGet(state, "turn", NoneNum), 30, 30, line)>>

\* C8: a narrative line that matches the attributed-range pattern and the bare damage
\* pattern yields exactly one Damage event: target, actor, move, low and high are the
\* groups of the attributed-range match ("Cat lost 30% - 40% from Eddie's Tackle" gives
\* target Cat, actor Eddie, move Tackle, 30 and 40), never the rolling actor and move.
C8_AttributedRangeWins ==
  /\ (fed # <<>> /\ ~IsProtocol(LastLine)
      /\ Search(DAMAGE_RANGE_FROM_PATTERN, LastLine).ok
      /\ Search(DAMAGE_PATTERN, LastLine).ok) =>
       LET m == Search(DAMAGE_RANGE_FROM_PATTERN, LastLine)
       IN OfType(returned, "damage") =
            <<Event("damage", m.caps["actor"], m.caps["target"], m.caps["move"],
                    StateGet(state, "turn", NoneNum),
                    float(m.caps["low"]), float(m.caps["high"]), LastLine)>>
  /\ LET line == <<W("Cat"), W("lost"), N(30), W("%"), W("-"), N(40), W("%")>> \o FromEddie
     IN fed = <<line>> =>
          returned = <<Event("damage", <<W("Eddie")>>, <<W("Cat")>>, <<W("Tackle")>>,
                             StateGet(state, "turn", NoneNum), 30, 40, line)>>

\* an attributed-range line was parsed from a state that holds a rolling actor and move
C8_Witness ==
  /\ fed = << <<W("Cat"), W("lost"), N(30), W("%"), W("-"), N(40), W("%")>> \o FromEddie >>
  /\ prior = LaterState
  /\ Len(returned) = 1
  /\ returned[1].actor = <<W("Eddie")>>
  /\ returned[1].value_high = 40

\* C9: a narrative line that does not match the attributed-range pattern and matches both
\* the attributed single-value pattern and the unattributed range pattern yields one
\* Damage event with the groups of the attributed single-value match: its actor and move,
\* and value_low = value_high = its low.
C9_AttributedSingleBeforeRange ==
  (fed # <<>> /\ ~IsProtocol(LastLine)
   /\ ~Search(DAMAGE_RANGE_FROM_PATTERN, LastLine).ok
   /\ Search(DAMAGE_FROM_PATTERN, LastLine).ok
   /\ Search(DAMAGE_RANGE_PATTERN, LastLine).ok) =>
    LET m == Search(DAMAGE_FROM_PATTERN, LastLine)
    IN OfType(returned, "damage") =
         <<Event("damage", m.caps["actor"], m.caps["target"], m.caps["move"],
                 StateGet(state, "turn", NoneNum),
                 float(m.caps["low"]), float(m.caps["low"]), LastLine)>>

\* C10: the events of one call on one line hold at most one Item event and at most one
\* Damage event.
C10_AtMostOneEach ==
  /\ Len(OfType(returned, "item")) <= 1
  /\ Len(OfType(returned, "damage")) <= 1
  /\ Len(returned) = Len(OfType(returned, "item")) + Len(OfType(returned, "damage"))

\* a line matched an item pattern and several damage patterns, and yielded one of each
C10_Witness ==
  /\ fed # <<>>
  /\ Len(OfType(returned, "item")) = 1
  /\ Len(OfType(returned, "damage")) = 1
  /\ Search(DAMAGE_RANGE_FROM_PATTERN, LastLine).ok
  /\ Search(DAMAGE_RANGE_PATTERN, LastLine).ok

\* C11: after a call the dict passed as state is as it was before the call and shares
\* no dict with the returned state, and a second call with the same lines and the same
\* dict returns the events, the state and the log lines of the first.
C11_ArgumentUntouched ==
  fed # <<>> =>
    /\ arg = prior
    /\ ~Aliased(prior)
    /\ again # <<>> =>
         again[1] = [events |-> returned, state |-> state, log_lines |-> logged]

\* the normalized text holds "opposing" or "foe"
NamesOpponent(value) ==
  \/ Contains(<<"o", "p", "p", "o", "s", "i", "n", "g">>, normalize_name(value))
  \/ Contains(<<"f", "o", "e">>, normalize_name(value))

\* C12: for a text whose normalized form holds "opposing" or "foe", classify_owner
\* returns opponent, whatever the nicknames and my_side are ("p1a: opposing Cat" is
\* the opponent's even when Cat is a nickname of mine and my_side is p1).
C12_OpposingIsOpponent ==
  /\ (owner # <<>> /\ Truthy(text) /\ NamesOpponent(text)) => owner[1] = "opponent"
  /\ (owner # <<>> /\ text \in { <<W("Opposing"), W("Giraffe")>>, <<W("Foeman")>>,
                                 <<W("p1a:"), W("opposing"), W("Cat")>> })
       => owner[1] = "opponent"

\* a text with "opposing", a slot token equal to my_side and a nickname of mine in it
C12_Witness ==
  /\ owner = <<"opponent">>
  /\ text = <<W("p1a:"), W("opposing"), W("Cat")>>
  /\ my_side = "p1"
  /\ nicknames = Nicknames(<< <<W("Dog")>>, <<W("Cat")>> >>, <<>>)

\* the first slot token of the normalized text
SlotOf(value) == _detect_side_token(normalize_name(value))

\* C13: when my_side is known and the normalized text, without "opposing" and "foe",
\* holds a token that starts with p1 or p2, classify_owner returns mine when the first
\* such slot is my_side and opponent otherwise, whatever the nicknames are
\* ("|move|p1a: Cat|Tackle|p2a: Dog" is mine for p1 and the opponent's for p2).
C13_SlotDecides ==
  /\ (owner # <<>> /\ Truthy(text) /\ ~NamesOpponent(text)
      /\ my_side # Unknown /\ SlotOf(text) # Unknown) =>
       owner[1] = IF SlotOf(text) = my_side THEN "mine" ELSE "opponent"
  /\ (owner # <<>> /\ my_side # Unknown
      /\ text = Protocol(<< <<W("move")>>, KeyCat, <<W("Tackle")>>, KeyDog >>)) =>
       owner[1] = IF my_side = "p1" THEN "mine" ELSE "opponent"

\* a text of slot p2 that holds a nickname of mine, classified for my_side p1
C13_Witness ==
  /\ owner = <<"opponent">>
  /\ text = <<W("p2a:"), W("Dog")>>
  /\ my_side = "p1"
  /\ nicknames = Nicknames(<< <<W("Dog")>>, <<W("Cat")>> >>, <<>>)

\* the names the nicknames hold for a side
NamesOf(dict, side) ==
  LET i == CHOOSE i \in 1..Len(dict) : dict[i].side = side IN dict[i].names

\* C14: when neither the opposing/foe rule nor the slot rule applies, classify_owner
\* returns mine when a normalized nickname of mine is in the normalized text, otherwise
\* opponent when a normalized nickname of the opponent is, otherwise unknown.
C14_MineBeforeOpponent ==
  (owner # <<>> /\ Truthy(text) /\ ~NamesOpponent(text)
   /\ ~(my_side # Unknown /\ SlotOf(text) # Unknown)) =>
    owner[1] = IF AnyNameIn(NamesOf(nicknames, "mine"), normalize_name(text)) THEN "mine"
               ELSE IF AnyNameIn(NamesOf(nicknames, "opponent"), normalize_name(text))
                    THEN "opponent"
               ELSE Unknown

\* a text matched by a nickname of each side
C14_Witness ==
  /\ owner = <<"mine">>
  /\ text = <<W("Giraffe")>>
  /\ my_side = Unknown
  /\ nicknames = Nicknames(<< <<>>, <<W("!")>>, <<W("raff")>> >>, << <<W("Giraffe")>> >>)

\* the co-occurrence count of a slot: the rows whose first slot token is the slot and
\* that hold a known name
Cooccurrences(side) ==
  Cardinality({ i \in 1..Len(match_lines) :
    /\ _detect_side_token(normalize_name(match_lines[i])) = side
    /\ \E j \in 1..Len(my_names) :
         /\ my_names[j] # <<>>
         /\ normalize_name(my_names[j]) # <<>>
         /\ Contains(normalize_name(my_names[j]), normalize_name(match_lines[i])) })

\* C15: infer_my_side returns p1 only when the p1 count is strictly greater than the p2
\* count, p2 only when the p2 count is strictly greater, and unknown when both counts
\* are zero, when they are equal or when no known name is given
C15_StrictlyGreater ==
  inferred # <<>> =>
    /\ inferred[1] = "p1" <=> Cooccurrences("p1") > Cooccurrences("p2")
    /\ inferred[1] = "p2" <=> Cooccurrences("p2") > Cooccurrences("p1")
    /\ inferred[1] = Unknown <=> Cooccurrences("p1") = Cooccurrences("p2")
    /\ (\A j \in 1..Len(my_names) : my_names[j] = <<>>) => inferred[1] = Unknown

\* infer_my_side has returned unknown on a tie of one against one
C15_Witness ==
  /\ inferred = <<Unknown>>
  /\ Cooccurrences("p1") = 1 /\ Cooccurrences("p2") = 1

\* C16: for a match with an empty NicknameSet and no resolved side slot, the owner of
\* an event whose actor, target and raw line hold neither "opposing" nor "foe" is
\* unknown
C16_DegradesToUnknown ==
  (/\ detail # <<>>
   /\ nicknames = NoNicknames
   /\ my_side = Unknown
   /\ infer_my_side(match_lines, MY_POKEMON_PRESET) = Unknown) =>
    \A i \in 1..Len(detail[1]) :
      (/\ ~(Truthy(detail[1][i].actor) /\ NamesOpponent(detail[1][i].actor))
       /\ ~(Truthy(detail[1][i].target) /\ NamesOpponent(detail[1][i].target))
       /\ ~NamesOpponent(detail[1][i].raw_line)) => detail[1][i].owner = Unknown

\* winner and player1 are present and name the same player once normalized
WinnerIsPlayer1 ==
  /\ Truthy(match_meta.winner) /\ Truthy(match_meta.player1)
  /\ normalize_name(match_meta.winner) = normalize_name(match_meta.player1)

\* winner and player1 are present and the normalized winner is the normalized player2
\* (a missing player2 has no normalized form, an empty one has the empty form)
WinnerIsPlayer2 ==
  /\ Truthy(match_meta.winner) /\ Truthy(match_meta.player1)
  /\ match_meta.player2 # None
  /\ normalize_name(match_meta.winner) = normalize_name(match_meta.player2)

\* C17 as stated: "Won" exactly when winner and player1 are present and the normalized
\* winner equals the normalized player1, "Lost" exactly when that does not hold, winner
\* and player1 are present and the normalized winner equals the normalized player2,
\* absent in every other case
C17_AsStated ==
  result_label # <<>> =>
    /\ result_label[1] = <<W("Won")>> <=> WinnerIsPlayer1
    /\ result_label[1] = <<W("Lost")>> <=> (~WinnerIsPlayer1 /\ WinnerIsPlayer2)
    /\ result_label[1] = None <=> (~WinnerIsPlayer1 /\ ~WinnerIsPlayer2)

\* C17: "Won" exactly when winner and player1 are present and the normalized winner
\* equals the normalized player1; "Lost" exactly when that does not hold, winner,
\* player1 and player2 are present (not missing, not empty) and the normalized winner
\* equals the normalized player2; absent in every other case
C17_ResultLabel ==
  result_label # <<>> =>
    /\ result_label[1] = <<W("Won")>> <=> WinnerIsPlayer1
    /\ result_label[1] = <<W("Lost")>> <=>
         (~WinnerIsPlayer1 /\ Truthy(match_meta.player2) /\ WinnerIsPlayer2)
    /\ result_label[1] = None <=>
         (~WinnerIsPlayer1 /\ ~(Truthy(match_meta.player2) /\ WinnerIsPlayer2))

\* a match lost: the winner is player2 in another spelling
C17_Witness ==
  /\ result_label = << <<W("Lost")>> >>
  /\ match_meta.winner = <<W("ALICE")>>
  /\ match_meta.player1 = <<W("Bob")>>
  /\ match_meta.player2 = <<W("Alice"), W("!")>>

\* a raw line without the white space at its ends
Trimmed(raw) ==
  LET inked == {i \in 1..Len(raw) : raw[i] # W(" ")}
  IN IF inked = {} THEN <<>>
     ELSE SubSeq(raw, CHOOSE i \in inked : \A j \in inked : i <= j,
                      CHOOSE i \in inked : \A j \in inked : i >= j)

\* the turn a trimmed line of RawLines announces, if it announces one
Announced(line) ==
  IF line = Protocol(<< <<W("turn")>>, <<N(3)>> >>) THEN 3
  ELSE IF line = <<W("Turn"), N(4)>> THEN 4
  ELSE NoneNum

RECURSIVE TurnAfter(_, _)

\* the turn active once the first n lines have been interpreted
TurnAfter(lines, n) ==
  IF n = 0 THEN NoneNum
  ELSE IF Announced(Trimmed(lines[n])) # NoneNum THEN Announced(Trimmed(lines[n]))
  ELSE TurnAfter(lines, n - 1)

RECURSIVE ExpectedLog(_, _)

\* one LogLine per line of the first n lines that is not empty once trimmed
ExpectedLog(lines, n) ==
  IF n = 0 THEN <<>>
  ELSE ExpectedLog(lines, n - 1)
       \o (IF Trimmed(lines[n]) = <<>> THEN <<>>
           ELSE <<[turn |-> TurnAfter(lines, n), raw_line |-> Trimmed(lines[n])]>>)

\* the log lines are those of the trimmed non-empty lines, in order, and every event
\* is that of such a line
LogLinePerLine ==
  /\ logged = ExpectedLog(fed, Len(fed))
  /\ \A k \in 1..Len(emitted) :
       /\ emitted[k].raw_line # <<>>
       /\ \E i \in 1..Len(fed) : emitted[k].raw_line = Trimmed(fed[i])

\* a call whose lines are all empty once trimmed adds no LogLine and no Event and
\* returns the state it was given
EmptyCall ==
  (/\ fed' # fed
   /\ \A i \in (Len(fed) + 1)..Len(fed') : Trimmed(fed'[i]) = <<>>) =>
    /\ logged' = logged /\ emitted' = emitted /\ returned' = <<>>
    /\ SameState(state, state')

\* a request whose line is empty once trimmed leaves the tables as they are
EmptyRequest ==
  (posted' # posted /\ Trimmed(posted'[Len(posted')]) = <<>>) => db' = db

\* C18: parse_log_stream returns exactly one LogLine per input line that is non-empty
\* after trimming, in input order, with raw_line equal to the trimmed line and turn equal
\* to the turn active once that line has been interpreted; a line that is empty after
\* trimming yields no LogLine, no Event and no state change, and api_ingest_line stores
\* nothing for it
C18_LogLinePerNonEmptyLine ==
  /\ []LogLinePerLine
  /\ [][EmptyCall]_vars
  /\ [][EmptyRequest]_vars

\* a white-space line, then a line announcing turn 4 behind white space, then a damage
\* line, in calls of parse_log_stream
C18_Witness ==
  /\ fed = << Space, Space \o <<W("Turn"), N(4)>>,
              Space \o <<W("Dog"), W("lost"), N(30), W("%")>> \o Space >>
  /\ Len(logged) = 2
  /\ logged[1] = [turn |-> 4, raw_line |-> <<W("Turn"), N(4)>>]
  /\ logged[2].turn = 4
  /\ Len(emitted) = 1

\* the target-keys of the lines of Lines
TargetKeys == {KeyDog, KeyCat, <<>>}

\* C19: after any sequence of lines, hp_pct[k] is the percentage of the most recent
\* switch/drag/replace or -damage line for target-key k whose HP text parsed (a -damage
\* line overwrites the value also when HP rose), and is absent when there is no such
\* line; lines for other keys or with unparseable HP leave it unchanged
C19_LatestReading ==
  \A key \in TargetKeys :
    MapGet(StateGet(state, "hp_pct", EmptyDict), key) = PrevReading(fed, key, Len(fed))

IsMoveLine(line) ==
  line \in { Protocol(<< <<W("move")>>, KeyCat, <<W("Tackle")>>, KeyDog >>),
             Protocol(<< <<W("move")>>, <<>>, <<W("Tackle")>>, KeyCat >>),
             <<W("Dog"), W("used"), W("Bite"), W("!")>> }

\* the actors a move line of MoveLines names: an empty actor field counts as the empty
\* str or as no actor
ActorsOf(line) ==
  IF line = Protocol(<< <<W("move")>>, KeyCat, <<W("Tackle")>>, KeyDog >>) THEN {<<W("Cat")>>}
  ELSE IF line = <<W("Dog"), W("used"), W("Bite"), W("!")>> THEN {<<W("Dog")>>}
  ELSE {<<>>, None}

\* the move a move line of MoveLines names
MoveOf(line) ==
  IF line = <<W("Dog"), W("used"), W("Bite"), W("!")>> THEN <<W("Bite")>> ELSE <<W("Tackle")>>

\* the positions of the -damage lines among the lines fed
DamageLines == {i \in 1..Len(fed) : ~IsMoveLine(fed[i])}

\* the position of the last move line before position i, 0 if there is none
LastMoveBefore(i) ==
  IF \E j \in 1..(i - 1) : IsMoveLine(fed[j])
  THEN CHOOSE j \in 1..(i - 1) : IsMoveLine(fed[j]) /\ \A h \in (j + 1)..(i - 1) : ~IsMoveLine(fed[h])
  ELSE 0

\* C20: every Damage event of a protocol -damage line carries the actor and the move of
\* the most recent move line before it in the stream (a protocol move record or a
\* narrative "<actor> used <move>!"), those of the rolling state when that line was in an
\* earlier call, and no actor and no move when there was no move line
C20_ActorAndMoveOfLastMoveLine ==
  /\ Len(emitted) = Cardinality(DamageLines)
  /\ \A i \in DamageLines :
       LET event == emitted[Cardinality({j \in DamageLines : j <= i})]
           at == LastMoveBefore(i)
       IN IF at = 0
          THEN /\ event.actor = StateGet(prior, "last_actor", None)
               /\ event.move = StateGet(prior, "last_move", None)
          ELSE /\ event.actor \in ActorsOf(fed[at])
               /\ event.move = MoveOf(fed[at])

IsMoveRecord(line) ==
  line \in { Protocol(<< <<W("move")>>, KeyCat, <<W("Tackle")>>, KeyDog >>),
             Protocol(<< <<W("move")>>, <<>>, <<W("Tackle")>>, KeyCat >>) }

\* C21: a protocol move line sets last_actor to the line's actor with its slot prefix
\* stripped and last_move to the line's move, emits no Event and leaves the turn and
\* hp_pct unchanged
C21_MoveRecordSetsActorAndMove ==
  /\ (fed # <<>> /\ IsMoveRecord(LastLine)) =>
       /\ StateGet(state, "last_actor", None) \in ActorsOf(LastLine)
       /\ StateGet(state, "last_move", None) = MoveOf(LastLine)
  /\ (Len(fed) = 1 /\ IsMoveRecord(fed[1])) =>
       /\ returned = <<>>
       /\ StateGet(state, "turn", NoneNum) = StateGet(prior, "turn", NoneNum)
       /\ StateGet(state, "hp_pct", EmptyDict) = StateGet(prior, "hp_pct", EmptyDict)

\* the records of NumberLines whose numeric field is malformed
Malformed(line) ==
  line \in { Protocol(<< <<W("turn")>>, <<W("Bite")>> >>),
             Protocol(<< <<W("switch")>>, KeyDog, <<W("Persian")>>, <<W("fnt")>> >>),
             Protocol(<< <<W("-damage")>>, KeyDog, <<N(0), W("fnt")>> >>),
             Protocol(<< <<W("-damage")>>, KeyDog, Hp(62, 0) >>) }

WellFormed(line) == ~Malformed(line)

\* the call returned, and what it returned is what the lines without the malformed
\* records give, but for one LogLine per line
MalformedSkipped ==
  /\ Len(logged) = Len(fed)
  /\ \A i \in 1..Len(fed) : logged[i].raw_line = fed[i]
  /\ emitted = parse_log_stream(SelectSeq(fed, WellFormed), prior).events
  /\ SameState(state, parse_log_stream(SelectSeq(fed, WellFormed), prior).state)
  /\ (\A i \in 1..Len(fed) : Malformed(fed[i])) => emitted = <<>> /\ SameState(state, prior)

\* C22: a turn record whose field is not an integer and a switch/drag/replace or -damage
\* record whose HP text is neither "N%" nor "A/B" with B > 0 produce no Event and no
\* state change, are retained as a LogLine and leave the events of the other lines of
\* the batch unchanged; parse_log_stream raises no error for any input
C22_NumbersNeverAbort ==
  /\ exception = ""
  /\ (fed # <<>> /\ exception = "") => MalformedSkipped

\* the records of TagLines whose tag is none of turn, move, switch, drag, replace, -damage
OtherTag(line) ==
  line \in { Protocol(<< <<W("-heal")>>, KeyDog, Hp(80, 100) >>),
             Protocol(<< <<W("faint")>>, KeyDog >>),
             Protocol(<< <<W("player")>>, <<W("p1")>>, <<W("Alice")>> >>),
             Protocol(<< <<W("Turn")>>, <<N(5)>> >>),
             <<Bar>> }

KnownTag(line) == ~OtherTag(line)

RECURSIVE ActiveTurn(_, _, _)

\* the turn active once the first n lines of TagLines have been interpreted, from turn
\* start
ActiveTurn(lines, n, start) ==
  IF n = 0 THEN start
  ELSE IF lines[n] = Protocol(<< <<W("turn")>>, <<N(3)>> >>) THEN 3
  ELSE ActiveTurn(lines, n - 1, start)

\* C23: a protocol line whose tag is none of turn, move, switch, drag, replace, -damage
\* produces no Event, leaves the whole ParseState unchanged and is retained as one
\* LogLine tagged with the active turn
C23_OtherTagOnlyLogged ==
  fed # <<>> =>
    /\ logged = [i \in 1..Len(fed) |->
                   [turn |-> ActiveTurn(fed, i, StateGet(prior, "turn", NoneNum)),
                    raw_line |-> fed[i]]]
    /\ emitted = parse_log_stream(SelectSeq(fed, KnownTag), prior).events
    /\ SameState(state, parse_log_stream(SelectSeq(fed, KnownTag), prior).state)
    /\ (\A i \in 1..Len(fed) : OtherTag(fed[i])) => emitted = <<>> /\ SameState(state, prior)

\* a switch at 100%, a -heal record with HP text and a -damage record: the reading of the
\* switch is the one the damage is measured from
C23_Witness ==
  /\ fed = << Protocol(<< <<W("switch")>>, KeyDog, <<W("Persian")>>, Hp(100, 100) >>),
              Protocol(<< <<W("-heal")>>, KeyDog, Hp(80, 100) >>),
              Protocol(<< <<W("-damage")>>, KeyDog, Hp(62, 100) >> ) >>
  /\ Len(logged) = 3
  /\ Len(emitted) = 1
  /\ emitted[1].value_low = 38

\* C24: in every reachable ParseState, every value stored in hp_pct is a percentage
\* between 0 and 100 inclusive, for every sequence of switch/drag/replace and -damage
\* lines, HP texts such as "150/100" or "250%" included
C24_PercentageWithinRange ==
  \A key \in DOMAIN StateGet(state, "hp_pct", EmptyDict) :
    /\ StateGet(state, "hp_pct", EmptyDict)[key] >= 0
    /\ StateGet(state, "hp_pct", EmptyDict)[key] <= 100

\* the lines of UsedLines that match "<actor> used <move>!"
IsUsedLine(line) ==
  line \in { <<W("Cat"), W("used"), W("Tackle"), W("!")>>,
             <<W("Cat"), W("used"), W("its"), W("Berry"), W("!")>>,
             <<W("Dog"), W("used"), W("Bite"), W("!"), W("Cat"), W("lost"), N(30), W("%")>> }

\* the turn active before line i of a call that started from state s
TurnBefore(log_lines, i, s) ==
  IF i = 1 THEN StateGet(s, "turn", NoneNum) ELSE log_lines[i - 1].turn

\* C25: a narrative line matching "<actor> used <move>!" only updates last_actor and
\* last_move: it emits no Item event and no Damage event and does not change the turn,
\* also when the same line matches an item pattern or a damage pattern
C25_UsedLineOnlySetsActorAndMove ==
  \A i \in 1..Len(fed) :
    IsUsedLine(fed[i]) =>
      /\ \A k \in 1..Len(emitted) : emitted[k].raw_line # fed[i]
      /\ logged[i].turn = TurnBefore(logged, i, prior)
      /\ i = Len(fed) => /\ StateGet(state, "last_actor", None) = <<fed[i][1]>>
                         /\ StateGet(state, "last_move", None) # None

\* the lines of TurnLines that match ^Turn <N>
IsTurnLine(line) == line[1] = W("Turn")

\* last_actor and last_move once the first n lines of TurnLines have been interpreted, if
\* turn lines leave them alone
LastUsed(lines, n, s) ==
  IF \E i \in 1..n : lines[i] = <<W("Dog"), W("used"), W("Bite"), W("!")>>
  THEN <<<<W("Dog")>>, <<W("Bite")>>>>
  ELSE <<StateGet(s, "last_actor", None), StateGet(s, "last_move", None)>>

\* C26: a narrative line matching the turn marker ^Turn <N> only sets the current turn to
\* N: it emits no Event and leaves last_actor, last_move and hp_pct unchanged, also when
\* the rest of the line matches the move-used, item or damage patterns
C26_TurnLineOnlySetsTurn ==
  /\ \A i \in 1..Len(fed) :
       IsTurnLine(fed[i]) =>
         /\ logged[i].turn = fed[i][2].n
         /\ \A k \in 1..Len(emitted) : emitted[k].raw_line # fed[i]
  /\ fed # <<>> =>
       /\ StateGet(state, "last_actor", None) = LastUsed(fed, Len(fed), prior)[1]
       /\ StateGet(state, "last_move", None) = LastUsed(fed, Len(fed), prior)[2]
       /\ StateGet(state, "hp_pct", EmptyDict) = StateGet(prior, "hp_pct", EmptyDict)

\* the name in a URL of UrlInputs, <<>> when it has none
NameOf(url) == SelectSeq(url, LAMBDA t : t.s \notin {" ", ".json", "/"})

\* what the server of a URL answers
BodyOf(url) ==
  IF NameOf(url) \o <<W(".json")>> \in DOMAIN remote
  THEN remote[NameOf(url) \o <<W(".json")>>] ELSE Unreachable

\* the transcript of the URL cannot be fetched or decoded
FailsToLoad(url) == NameOf(url) # <<>> /\ BodyOf(url).kind # "object"

Loads(url) == NameOf(url) # <<>> /\ BodyOf(url).kind = "object"

\* C27: a failure to fetch or decode an externally sourced transcript is never raised:
\* _ingest_replay_url returns a failure value that carries the URL and stores no match,
\* event or log line, for every failure including a payload that is valid JSON but not
\* an object; in bulk ingestion a failing URL does not prevent the following URLs from
\* being ingested and is counted in summary.failed with total == ok + failed
C27_FailuresReportedNotRaised ==
  bulk # <<>> /\ url_list # <<>> =>
    /\ bulk[1].status = "ok"
    /\ Len(bulk[1].results) = Len(url_list)
    /\ \A i \in 1..Len(url_list) :
         /\ FailsToLoad(url_list[i]) =>
              /\ ~bulk[1].results[i].result.ok
              /\ bulk[1].results[i].result.url = NameOf(url_list[i])
         /\ Loads(url_list[i]) =>
              /\ bulk[1].results[i].result.ok
              /\ db.matches[bulk[1].results[i].result.match_id].replay_url
                   = NameOf(url_list[i])
    /\ Len(db.matches) = Cardinality({i \in 1..Len(url_list) : Loads(url_list[i])})
    /\ \A k \in 1..Len(db.events) : db.events[k].match_id \in 1..Len(db.matches)
    /\ \A k \in 1..Len(db.log_lines) : db.log_lines[k].match_id \in 1..Len(db.matches)
    /\ bulk[1].summary.total = Len(url_list)
    /\ bulk[1].summary.failed
         = Cardinality({i \in 1..Len(url_list) : ~bulk[1].results[i].result.ok})
    /\ bulk[1].summary.total = bulk[1].summary.ok + bulk[1].summary.failed

\* C28: clean_damage_target strips leading "(" and trailing ")", removes
\* "The opposing "/"the opposing " and then "The "/"the " only where they are a leading
\* prefix of the target, and trims; occurrences of "the " or "the opposing " inside the
\* remaining name are preserved
C28_OnlyLeadingArticleRemoved ==
  cleaned # <<>> =>
    \A o \in Opening, a \in Articles, n \in TargetNames, c \in Closing, p \in Padding :
      target_text = CleanInput(o, a, n, c, p) => cleaned[1] = n

\* C29: _parse_replay_hp returns N for every HP text "N%", returns (A/B) x 100 for every
\* HP text "A/B" with B > 0, and returns no result for "A/B" with B <= 0 and for text
\* containing neither form
C29_PercentOrRatio ==
  parsed_hp # <<>> =>
    /\ \A n \in PercentValues, s \in Statuses :
         hp_field = Percent(n) \o s => parsed_hp[1] = n
    /\ \A a \in HpValues, b \in MaxHpValues, s \in Statuses :
         hp_field = Hp(a, b) \o s =>
           IF b > 0 THEN parsed_hp[1] # NoneNum /\ parsed_hp[1] * b = a * 100
           ELSE parsed_hp[1] = NoneNum
    /\ hp_field \in NeitherTexts => parsed_hp[1] = NoneNum

\* "31/2 par" gives 1550 and "62/0" gives nothing
C29_Witness ==
  \/ hp_field = Hp(31, 2) \o <<W("par")>> /\ parsed_hp = <<1550>>
  \/ hp_field = Hp(62, 0) /\ parsed_hp = <<NoneNum>>

\* the slot of the first slot token of a line of InferLines
FirstSlot(line) ==
  IF line = Protocol(<< <<W("move")>>, KeyCat, <<W("Tackle")>>, KeyDog >>) THEN "p1"
  ELSE IF line \in { Protocol(<< <<W("move")>>, KeyDog, <<W("Bite")>>, KeyCat >>),
                     Protocol(<< <<W("-damage")>>, KeyDog, Hp(62, 100) >>) } THEN "p2"
  ELSE Unknown

\* the names of NameLists that occur in a line of InferLines
NamesIn(line) ==
  IF line \in { Protocol(<< <<W("move")>>, KeyCat, <<W("Tackle")>>, KeyDog >>),
                Protocol(<< <<W("move")>>, KeyDog, <<W("Bite")>>, KeyCat >>) }
  THEN { <<W("Dog")>>, <<W("Cat")>> }
  ELSE { <<W("Dog")>> }

\* the lines that count for a slot
Counted(side) ==
  { i \in 1..Len(match_lines) :
      /\ FirstSlot(match_lines[i]) = side
      /\ \E j \in 1..Len(my_names) : my_names[j] \in NamesIn(match_lines[i]) }

\* C30: infer_my_side counts each log line at most once: a line contributes one count to
\* the slot of its first slot token if at least one known name occurs in it, and nothing
\* otherwise; a line naming several known names or several slot tokens still adds
\* exactly one to exactly one counter
C30_OneCountPerLine ==
  hits # <<>> =>
    /\ hits[1] = Cardinality(Counted("p1"))
    /\ hits[2] = Cardinality(Counted("p2"))
    /\ hits[1] + hits[2] <= Len(match_lines)

\* a line with two slot tokens and two known names has added one to p1_hits and nothing
\* to p2_hits
C30_Witness ==
  /\ match_lines = << Protocol(<< <<W("move")>>, KeyCat, <<W("Tackle")>>, KeyDog >>) >>
  /\ my_names = << <<W("Dog")>>, <<W("Cat")>> >>
  /\ hits = <<1, 0>>

\* C31: parse_match_meta recognizes each metadata field from either dialect: a transcript
\* carrying format, players and winner as protocol records yields the same {format,
\* player1, player2, winner} as the narrative transcript carrying the same values, and
\* lines of no marker leave all four fields unchanged
C31_DialectsAgree ==
  /\ from_protocol # <<>> => from_protocol[1] = carried.values
  /\ from_narrative # <<>> => from_narrative[1] = carried.values
  /\ from_protocol # <<>> /\ from_narrative # <<>> => from_protocol = from_narrative

\* the ids of the matches named "Live"
LiveIds == {i \in 1..Len(db.matches) : db.matches[i].name = "Live"}

\* C32: get_or_create_live_match creates at most one match named "Live": once it exists
\* every later call returns its id, and when several api_ingest_line requests run
\* concurrently while none exists they all resolve to the same match id, so the lines of
\* one live session are never split over two matches
C32_OneLiveMatch ==
  /\ Cardinality(LiveIds) <= 1
  /\ \A r1 \in Requests, r2 \in Requests :
       (/\ pc[r1] \notin {"idle", "select_live", "insert_live"} /\ req[r1].line # <<>>
        /\ pc[r2] \notin {"idle", "select_live", "insert_live"} /\ req[r2].line # <<>>) =>
         req[r1].match_id = req[r2].match_id
  /\ \A k \in 1..Len(db.log_lines) :
       \A h \in 1..Len(db.log_lines) : db.log_lines[k].match_id = db.log_lines[h].match_id

RECURSIVE Letters(_)

\* the number of characters of some lines
Letters(lines) == IF lines = <<>> THEN 0 ELSE Len(Head(lines)) + Letters(Tail(lines))

\* the characters of content before offset that are no white space
LettersBefore(content, offset) ==
  Cardinality({k \in 1..Len(content) : k <= offset /\ content[k] \notin WhiteSpace})

\* C33: the watcher's saved offset never moves past a log line that was not delivered:
\* if post_line fails for a line, the offset written by _save_position stays at or
\* before that line, so the line is posted again on a later poll and every line of the
\* file reaches the ingest endpoint once the endpoint is reachable
C33_OffsetBehindUndelivered ==
  tailed.emptied = 0 =>
    Letters(received) >= LettersBefore(tailed.content, _load_position(state_file))

RECURSIVE WholeLinesFrom(_, _, _)

\* the lines of content from index i on that end with "\n" and are not empty
WholeLinesFrom(content, i, cur) ==
  IF i > Len(content) THEN <<>>
  ELSE IF content[i] = "\n"
       THEN (IF cur = <<>> THEN <<>> ELSE <<cur>>) \o WholeLinesFrom(content, i + 1, <<>>)
  ELSE WholeLinesFrom(content, i + 1, Append(cur, content[i]))

IsPrefix(s, t) == Len(s) <= Len(t) /\ s = SubSeq(t, 1, Len(s))

\* C34: the watcher posts each line of the tailed file exactly once, whole and in file
\* order, under any interleaving of the writer's appends with the watcher's polls: a
\* line whose newline has not yet been written when a poll reads to end-of-file is not
\* posted as a fragment, and is never delivered as two separate lines
C34_WholeLinesOnce ==
  tailed.emptied = 0 => IsPrefix(sent, WholeLinesFrom(tailed.content, 1, <<>>))

\* every line of content, the unfinished last one included
AllLines(content) == WholeLinesFrom(content \o <<"\n">>, 1, <<>>)

\* this step is one call of _read_new_lines by tail_file
IsRead == watch_pc = "read" /\ watch_pc' = "save"

Shorter == Len(tailed.content) < position

\* C38: a read that finds the tailed file readable and shorter than the offset restarts at
\* offset 0 and posts every line of the new content; a read that finds the file missing
\* leaves the offset unchanged and posts nothing; a read that finds the file unreadable
\* posts nothing and leaves the offset unchanged unless the file is shorter than the
\* offset, and then the offset becomes 0
C38_RestartWhenShorter ==
  [][IsRead =>
       /\ tailed.exists /\ tailed.readable /\ Shorter =>
            /\ sent' = sent \o AllLines(tailed.content)
            /\ position' = Len(tailed.content)
       /\ ~tailed.exists => position' = position /\ sent' = sent
       /\ tailed.exists /\ ~tailed.readable =>
            /\ sent' = sent
            /\ position' = IF Shorter THEN 0 ELSE position]_vars

\* the file "a\n" was read, then replaced by "b", and the next read posted "b"
C38_Witness ==
  /\ tailed.emptied = 1 /\ tailed.content = <<"b">>
  /\ sent = << <<"a">>, <<"b">> >> /\ position = 1 /\ watch_pc = "save"

\* C38 as stated: a read of a readable file shorter than the offset restarts at 0 and
\* posts every line; a read of a missing or unreadable file leaves the offset unchanged
C38_UnchangedWhenUnreadable ==
  [][IsRead =>
       /\ tailed.exists /\ tailed.readable /\ Shorter =>
            /\ sent' = sent \o AllLines(tailed.content)
            /\ position' = Len(tailed.content)
       /\ ~tailed.exists \/ ~tailed.readable => position' = position]_vars

\* C35: no URL is removed from replays.txt without an ingestion attempt for it:
\* api_ingest_replay_file attempts every URL that was in the file before it clears it,
\* including a URL appended by another process between the handler's read of the file
\* and its clearing write
C35_NoUrlRemovedUnattempted ==
  file_pc = "idle" => \A u \in removed : \E k \in 1..Len(attempted) : attempted[k] = u

\* equal, or both None or ""
SameValue(a, b) == a = b \/ (~Truthy(a) /\ ~Truthy(b))

\* the row of the streamed match agrees with the metadata of the whole transcript
AgreesWithBatch(row, meta) ==
  /\ SameValue(row.format, meta.format)
  /\ SameValue(row.player1, meta.player1)
  /\ SameValue(row.player2, meta.player2)
  /\ SameValue(row.winner, meta.winner)
  /\ SameValue(row.result, compute_result(meta))

CarriesNothing(line) == parse_match_meta(<<line>>) = EmptyMeta

\* C36: streaming metadata agrees with batch metadata: after applying
\* apply_match_meta(parse_match_meta([line])) for each line of a transcript in order to a
\* fresh match, the stored format, player1, player2, winner and result equal
\* parse_match_meta over the whole transcript and compute_result of it; a line carrying no
\* metadata changes none of the stored fields
C36_StreamingAgreesWithBatch ==
  /\ [](posted # <<>> => AgreesWithBatch(db.matches[1], parse_match_meta(posted)))
  /\ [][posted # <<>> /\ posted' # posted /\ CarriesNothing(posted'[Len(posted')])
          => db'.matches[1] = db.matches[1]]_vars

\* the lines of fed that are not empty once trimmed, trimmed
Sources == SelectSeq([i \in 1..Len(fed) |-> Trimmed(fed[i])], LAMBDA line : line # <<>>)

\* the turn a line announces: "Turn n ..." or "|turn|n", else none
MarkerOf(line) ==
  IF Len(line) >= 2 /\ line[1] = W("Turn") /\ IsNum(line[2]) THEN line[2].n
  ELSE IF Len(line) >= 4 /\ line[1] = W("|") /\ line[2] = W("turn") /\ line[3] = W("|")
          /\ IsNum(line[4])
       THEN line[4].n
  ELSE NoneNum

Markers(lines, j) == {i \in 1..j : MarkerOf(lines[i]) # NoneNum}

\* the turn of the last marker among the first j lines, else the turn of the state given
TurnAt(lines, j, given) ==
  IF Markers(lines, j) = {} THEN StateGet(given, "turn", NoneNum)
  ELSE MarkerOf(lines[CHOOSE i \in Markers(lines, j) : \A k \in Markers(lines, j) : k <= i])

\* from maps each event to its source line: in order, an item event before the damage
\* event of the same line
InSourceOrder(from) ==
  /\ \A k \in 1..Len(emitted) :
       /\ emitted[k].raw_line = Sources[from[k]]
       /\ emitted[k].turn = logged[from[k]].turn
       /\ emitted[k].turn = TurnAt(Sources, from[k], prior)
  /\ \A k \in 1..(Len(emitted) - 1) :
       /\ from[k] <= from[k + 1]
       /\ from[k] = from[k + 1] =>
            emitted[k].event_type = "item" /\ emitted[k + 1].event_type = "damage"

\* C37: events are emitted in the order of their source lines, with the Item event of a
\* line before the Damage event of the same line; every Event's raw_line is the trimmed
\* source line and its turn equals the turn of the LogLine produced for that same line,
\* which is the most recent successfully parsed turn marker at or before that line (or
\* the prior state's turn if there is none)
C37_EventsInSourceOrder ==
  fed # <<>> =>
    /\ Len(logged) = Len(Sources)
    /\ \A j \in 1..Len(logged) : logged[j].turn = TurnAt(Sources, j, prior)
    /\ \E from \in [1..Len(emitted) -> 1..Len(Sources)] : InSourceOrder(from)

\* "Turn 4" behind white space, a turn record that is not a number, then a line with an
\* item and a damage clause: its two events carry turn 4 and the line
C37_Witness ==
  /\ fed = << Space \o <<W("Turn"), N(4)>>, Protocol(<< <<W("turn")>>, <<W("Bite")>> >>),
              <<W("Cat"), W("used"), W("its"), W("Berry"), W("Cat"), W("lost"), N(30),
                W("%")>> >>
  /\ Len(emitted) = 2
  /\ emitted[1].event_type = "item" /\ emitted[2].event_type = "damage"
  /\ emitted[1].turn = 4 /\ emitted[2].turn = 4
  /\ emitted[2].raw_line = fed[3]

====
